---------------------------- MODULE Spec2Model ----------------------------
(***************************************************************************)
(* Model of the medication pipeline of the prescription-tracker plugin:    *)
(*   - searchMedications / searchRxNorm / getRxNormDetails /               *)
(*     createMedicationResult  (the candidate search engine),              *)
(*   - generateMedicationNote  (enrichment merge, aliases, note storage),  *)
(*   - createCleanDescription  (the description extractor),                *)
(*   - createPrescriptionNote  (the finish date of a prescription),        *)
(*   - two calls of the search, or of the note generation, at once,        *)
(*   - the dialogs and commands of main.ts and the lists of settings.ts:   *)
(*     the medication picker, convertCurrentMedicationNote, the drug       *)
(*     label of a prescription, the prescription form, the settings tab.   *)
(* Strings are sequences of one-character strings, so that trim,           *)
(* toLowerCase and the Title-Case conversion are computed, not assumed.    *)
(***************************************************************************)
EXTENDS Integers, Sequences, FiniteSets, TLC

VARIABLES
    \* ---- one call of searchMedications ----
    sQuery,     \* the argument `query`, as passed by the caller
    sPc,        \* position of the call inside searchMedications/searchRxNorm
    sResults,   \* searchRxNorm's local `results`
    sSeen,      \* searchRxNorm's local `seenNames`
    sLeft,      \* items (or concept groups) of the current upstream list still to visit
    sSub,       \* concepts of the current concept group still to visit
    sThrew,     \* strategies whose try block ended in its catch
    sRequests,  \* endpoints an outbound request was sent to
    sRet,       \* the value searchMedications returned
    rich,       \* which upstream catalogue this run draws from (see DetailAnswers)
    \* ---- calls of generateMedicationNote and the vault they write to ----
    vault,        \* app.vault: the path of every file, with the note it holds
    folderExists, \* whether the medications folder is in the vault
    calls,        \* per call: position, arguments, locals, outcome
    \* ---- one call of createPrescriptionNote ----
    rxNote,       \* the form data passed in and the dateFinished written to the note
    \* ---- one call of createCleanDescription, and one more on its result ----
    dx,           \* the indication text, the description and the second description
    \* ---- two calls of searchMedications in flight at once ----
    pair,         \* per call: position, locals, the answers consumed, outcome
    \* ---- the dialogs, commands and settings of the plugin (main.ts, settings.ts) ----
    picker,       \* MedicationSelectionModal: the search box, the searches in flight, the list shown
    conv,         \* one run of convertCurrentMedicationNote and the vault it works on
    rxModal,      \* PrescriptionModal: the form data, the fields shown, the notes created
    lists,        \* settings: pharmacyList, selectedPatientNotes and the rows displayed
    labelRun      \* one run of createPrescriptionNote with a drug-label file to rename

searchVars == <<sQuery, sPc, sResults, sSeen, sLeft, sSub, sThrew, sRequests, sRet, rich>>

noteVars == <<vault, folderExists, calls>>

rxVars == <<rxNote>>

dxVars == <<dx>>

pairVars == <<pair>>

uiVars == <<picker, conv, rxModal, lists, labelRun>>

vars == <<searchVars, noteVars, rxVars, dxVars, pairVars, uiVars>>

\* what the steps of a search, and of a note generation, do not touch
nonSearchVars == <<noteVars, rxVars, dxVars, pairVars, uiVars>>

nonNoteVars == <<searchVars, rxVars, dxVars, pairVars, uiVars>>

nonRxVars == <<searchVars, noteVars, dxVars, pairVars, uiVars>>

nonDxVars == <<searchVars, noteVars, rxVars, pairVars, uiVars>>

nonPairVars == <<searchVars, noteVars, rxVars, dxVars, uiVars>>

\* the search, the note generation, the prescription note and the extractor
coreVars == <<searchVars, noteVars, rxVars, dxVars, pairVars>>

(***************************************************************************)
(* Strings                                                                 *)
(***************************************************************************)
Alphabet ==
    << "a", "b", "c", "d", "e", "f", "g", "h", "i", "j", "k", "l", "m",
       "n", "o", "p", "q", "r", "s", "t", "u", "v", "w", "x", "y", "z" >>

Capitals ==
    << "A", "B", "C", "D", "E", "F", "G", "H", "I", "J", "K", "L", "M",
       "N", "O", "P", "Q", "R", "S", "T", "U", "V", "W", "X", "Y", "Z" >>

Letters == {Alphabet[i] : i \in DOMAIN Alphabet}

CapitalLetters == {Capitals[i] : i \in DOMAIN Capitals}

Digits == {"0", "1", "2", "3", "4", "5", "6", "7", "8", "9"}

UpperOf(c) ==
    IF c \in Letters THEN Capitals[CHOOSE i \in DOMAIN Alphabet : Alphabet[i] = c] ELSE c

LowerOf(c) ==
    IF c \in CapitalLetters THEN Alphabet[CHOOSE i \in DOMAIN Capitals : Capitals[i] = c]
    ELSE c

\* String.prototype.toLowerCase
ToLower(s) == [i \in DOMAIN s |-> LowerOf(s[i])]

\* \w of a JavaScript regular expression
IsWordChar(c) == LowerOf(c) \in Letters \/ c \in Digits \/ c = "_"

\* String.prototype.trim: drop leading and trailing white space
RECURSIVE TrimLeft(_)
TrimLeft(s) == IF s # <<>> /\ Head(s) = " " THEN TrimLeft(Tail(s)) ELSE s

RECURSIVE TrimRight(_)
TrimRight(s) ==
    IF s # <<>> /\ s[Len(s)] = " " THEN TrimRight(SubSeq(s, 1, Len(s) - 1)) ELSE s

Trim(s) == TrimRight(TrimLeft(s))

Min(a, b) == IF a < b THEN a ELSE b

\* the k-th string nobody has used yet: "x", "xx", "xxx", ...
Fresh(k) == [i \in 1..k |-> "x"]

IsFresh(s) == s # <<>> /\ \A i \in DOMAIN s : s[i] = "x"

\* Upstream texts matter to the search only through equality with the keys of
\* seenNames, so an unseen text is always taken to be the next unused one.
NextFresh(seen) == Fresh(1 + Cardinality({s \in seen : IsFresh(s)}))

(***************************************************************************)
(* Candidate search engine                                                 *)
(***************************************************************************)
Failed == "failed"
NoData == "nodata"
NoRxcui == "none"
Unknown == <<"U", "n", "k", "n", "o", "w", "n">>

Ab == <<"A", "b">>
ABup == <<"A", "B">>
Zy == <<"Z", "y">>

\* slice(0, 5), slice(0, 10), slice(0, 8), slice(0, 3) and the two 8s of searchRxNorm
ExactLimit == 5
ApproxLimit == 10
SpellLimit == 8
ConceptLimit == 3
ExpandBelow == 5
MaxResults == 8

\* bounds of the upstream lists the model enumerates: items of a list of the
\* content catalogue, items of a list, concept groups and concepts of a group of
\* the transport catalogue
MaxVaried == 1
MaxList == 3
MaxGroups == 2
MaxConcepts == 3

\* the queries a caller passes
Queries ==
    { <<>>, <<"a">>, <<" ">>, <<" ", "a">>, <<"a", " ", " ">>,
      <<"a", "b">>, <<" ", "a", "b", " ">> }

\* properties.json of one concept: the request fails, the answer has no
\* `properties`, or it has them; a missing name reads as '' (props.name || '')
PropsAnswer(kind, name) == [kind |-> kind, name |-> name]

\* related.json of one concept: the names of its BN concepts, or a failure
RelatedAnswer(kind, bn) == [kind |-> kind, bn |-> bn]

\* The upstream source, as two catalogues of answers. The content catalogue
\* (rich) answers every request and varies what the records hold: a concept
\* without a name, two concepts whose names differ in case only, texts that
\* repeat. The transport catalogue varies how requests end: failure, no data,
\* malformed items, longer lists, fuzzy scores.
DetailAnswers(r) ==
    IF r THEN { [props |-> PropsAnswer("ok", <<>>), related |-> RelatedAnswer("ok", <<>>)],
                [props |-> PropsAnswer("ok", Ab), related |-> RelatedAnswer("ok", <<>>)],
                [props |-> PropsAnswer("ok", ABup), related |-> RelatedAnswer("ok", <<Zy>>)] }
         ELSE { [props |-> PropsAnswer(Failed, <<>>), related |-> RelatedAnswer("ok", <<>>)],
                [props |-> PropsAnswer(NoData, <<>>), related |-> RelatedAnswer("ok", <<>>)],
                [props |-> PropsAnswer("ok", Ab), related |-> RelatedAnswer(Failed, <<>>)],
                [props |-> PropsAnswer("ok", Ab), related |-> RelatedAnswer("ok", <<>>)] }

\* whether a list request itself may fail
FailChoices(r) == IF r THEN {FALSE} ELSE BOOLEAN

\* approximateTerm's `score` of a candidate; 0 stands for an absent score
ScoreChoices(r) == IF r THEN {0} ELSE {0, 95}

ListBound(r) == IF r THEN MaxVaried ELSE MaxList
GroupBound(r) == IF r THEN MaxVaried ELSE MaxGroups
ConceptBound(r) == IF r THEN MaxVaried ELSE MaxConcepts

NoDetails ==
    [found |-> FALSE, name |-> <<>>, generic_names |-> <<>>, brand_names |-> <<>>,
     drug_class |-> <<>>]

\* getRxNormDetails(rxcui), given what the two requests it sends come back with
GetRxNormDetails(props, related) ==
    IF props.kind # "ok" THEN NoDetails
    ELSE IF related.kind # "ok" THEN NoDetails
    ELSE LET name == props.name
             brandNames == IF Len(related.bn) = 0 THEN <<name>> ELSE related.bn
         IN  [found |-> TRUE, name |-> name, generic_names |-> <<>>,
              brand_names |-> brandNames, drug_class |-> <<>>]

\* endpoints getRxNormDetails sends a request to
DetailRequests(props) ==
    IF props.kind # "ok" THEN {"properties"} ELSE {"properties", "related"}

\* createMedicationResult(details, rxcui, score, isFromAPI)
createMedicationResult(details, rxcui, score, isFromAPI) ==
    [ title         |-> IF details.name = <<>> THEN Unknown ELSE details.name,
      name          |-> IF details.name = <<>> THEN Unknown ELSE details.name,
      generic_names |-> details.generic_names,
      brand_names   |-> details.brand_names,
      drug_class    |-> details.drug_class,
      rxcui         |-> rxcui,
      isFromAPI     |-> isFromAPI,
      searchScore   |-> score ]

\* the entry both fallback branches of searchMedications build
Synthetic(searchTerm, score) ==
    [ title         |-> searchTerm,
      name          |-> searchTerm,
      generic_names |-> <<>>,
      brand_names   |-> <<searchTerm>>,
      drug_class    |-> <<>>,
      rxcui         |-> NoRxcui,
      isFromAPI     |-> FALSE,
      searchScore   |-> score ]

\* results.sort((a, b) => (b.searchScore || 0) - (a.searchScore || 0)): a stable
\* sort by descending score
RECURSIVE InsertByScore(_, _)
InsertByScore(x, sorted) ==
    IF sorted = <<>> THEN <<x>>
    ELSE IF Head(sorted).searchScore >= x.searchScore
         THEN <<Head(sorted)>> \o InsertByScore(x, Tail(sorted))
         ELSE <<x>> \o sorted

RECURSIVE SortByScore(_)
SortByScore(seq) ==
    IF seq = <<>> THEN <<>>
    ELSE InsertByScore(seq[Len(seq)], SortByScore(SubSeq(seq, 1, Len(seq) - 1)))

\* results.slice(0, 8)
Truncate(seq) == SubSeq(seq, 1, Min(Len(seq), MaxResults))

\* searchRxNorm without its sort
RankResultsUnsorted(results) == Truncate(results)

\* what searchRxNorm returns from its last three statements
RankResults(results) == Truncate(SortByScore(results))

\* searchMedications without its "no results" entry
SearchReturnNoFallback(searchTerm, rx) ==
    IF rx.threw THEN <<Synthetic(searchTerm, 25)>> ELSE rx.value

\* searchMedications once searchRxNorm has settled: `rx` is its outcome
SearchReturn(searchTerm, rx) ==
    IF rx.threw THEN <<Synthetic(searchTerm, 25)>>
    ELSE IF Len(rx.value) > 0 THEN rx.value
    ELSE <<Synthetic(searchTerm, 50)>>

\* the guard of searchMedications, off by one
TooShortOffByOne(searchTerm) == Len(searchTerm) < 1

\* the guard of searchMedications
TooShort(searchTerm) == Len(searchTerm) < 2

\* the guard of strategy 4 without its upper limit
ShouldExpandNonEmpty(results) == Len(results) > 0

\* the guard of strategy 4
ShouldExpand(results) == Len(results) > 0 /\ Len(results) < ExpandBelow

\* strategy 3 ending the search instead of going on to strategy 4
AfterSpellingStop(results) == "done"

AfterSpelling(results) == IF ShouldExpand(results) THEN "s4" ELSE "rank"

(***************************************************************************)
(* Note generation: enrichment merge, aliases, storage                     *)
(***************************************************************************)
Cd == <<"C", "d">>
AbCd == <<"A", "b", " ", "C", "d">>

\* the two simultaneous calls of generateMedicationNote the model follows
CallIds == {1, 2}

\* longest generic_names / brand_names list of an enumerated candidate
MaxNames == 2

\* title.toLowerCase().replace(/\b\w/g, l => l.toUpperCase())
TitleCase(s) ==
    [i \in DOMAIN s |->
        LET l == LowerOf(s[i])
        IN  IF IsWordChar(l) /\ (i = 1 \/ ~IsWordChar(s[i - 1])) THEN UpperOf(l) ELSE l]

\* the guarded Title-Case step at the top of generateMedicationNote
FormatTitle(title) == IF title = <<>> THEN title ELSE TitleCase(title)

\* arr.findIndex(n => n.toLowerCase() === name.toLowerCase()), 1-based, for a
\* name that occurs in arr
FirstIndexCI(arr, name) ==
    CHOOSE i \in DOMAIN arr :
        /\ ToLower(arr[i]) = ToLower(name)
        /\ \A j \in 1..(i - 1) : ToLower(arr[j]) # ToLower(name)

\* arr.some(n => n.toLowerCase() === name.toLowerCase())
IncludesCI(arr, name) == \E i \in DOMAIN arr : ToLower(arr[i]) = ToLower(name)

\* Array.prototype.filter, given the set of indices its callback accepts
RECURSIVE Pick(_, _, _)
Pick(arr, keep, i) ==
    IF i > Len(arr) THEN <<>>
    ELSE (IF i \in keep THEN <<arr[i]>> ELSE <<>>) \o Pick(arr, keep, i + 1)

\* .filter((name, index, arr) => arr.findIndex(<same name, any case>) === index)
DedupCI(arr) == Pick(arr, {i \in DOMAIN arr : FirstIndexCI(arr, arr[i]) = i}, 1)

\* an openfda field that may be absent from the label record
FdaField(has, v) == [has |-> has, v |-> v]

\* the label request: it fails, finds no record, or finds one; `description` is
\* what createCleanDescription made of the record's indications ('' if none)
FdaFailed ==
    [kind |-> Failed, generic_name |-> <<>>, brand_name |-> <<>>,
     pharm_class_epc |-> FdaField(FALSE, <<>>), pharm_class_moa |-> FdaField(FALSE, <<>>),
     description |-> <<>>]

FdaNoData == [FdaFailed EXCEPT !.kind = NoData]

FdaOk(generic, brand, epc, moa, description) ==
    [kind |-> "ok", generic_name |-> generic, brand_name |-> brand,
     pharm_class_epc |-> epc, pharm_class_moa |-> moa, description |-> description]

NoFda ==
    [found |-> FALSE, drug_class |-> <<>>, generic_names |-> <<>>, brand_names |-> <<>>,
     what_is_description |-> <<>>]

\* getOpenFDADetails(medicationName), given what its request came back with
GetOpenFDADetails(ans) ==
    IF ans.kind # "ok" THEN NoFda
    ELSE LET genericName == IF Len(ans.generic_name) > 0
                            THEN TitleCase(ans.generic_name[1]) ELSE <<>>
         IN  [found |-> TRUE,
              drug_class |-> IF ans.pharm_class_epc.has THEN ans.pharm_class_epc.v
                             ELSE IF ans.pharm_class_moa.has THEN ans.pharm_class_moa.v
                             ELSE <<>>,
              generic_names |-> IF genericName # <<>> THEN <<genericName>> ELSE <<>>,
              brand_names |-> ans.brand_name,
              what_is_description |-> ans.description]

EmptyMed ==
    [title |-> <<>>, generic_names |-> <<>>, brand_names |-> <<>>, drug_class |-> <<>>,
     what_is_description |-> <<>>]

\* the `if (fdaData) { ... }` block of generateMedicationNote, statement by statement
\* the class always taken from the label record
MergeDrugClassAlways(medData, fda) == [medData EXCEPT !.drug_class = fda.drug_class]

MergeDrugClass(medData, fda) ==
    [medData EXCEPT !.drug_class =
        IF Len(fda.drug_class) > 0 THEN fda.drug_class ELSE medData.drug_class]

MergeGenericNames(medData, fda) ==
    IF Len(fda.generic_names) > 0
    THEN [medData EXCEPT !.generic_names = DedupCI(medData.generic_names \o fda.generic_names)]
    ELSE medData

\* the brand-name merge without the title inference of its else branch
MergeBrandNamesNoInference(medData, fda) ==
    IF Len(fda.brand_names) > 0
    THEN [medData EXCEPT !.brand_names = DedupCI(medData.brand_names \o fda.brand_names)]
    ELSE medData

MergeBrandNames(medData, fda) ==
    IF Len(fda.brand_names) > 0
    THEN [medData EXCEPT !.brand_names = DedupCI(medData.brand_names \o fda.brand_names)]
    ELSE IF Len(medData.generic_names) > 0 /\ ~IncludesCI(medData.generic_names, medData.title)
         THEN [medData EXCEPT !.brand_names = DedupCI(medData.brand_names \o <<medData.title>>)]
         ELSE medData

RemoveGenericsFromBrands(medData) ==
    [medData EXCEPT !.brand_names =
        Pick(medData.brand_names,
             {i \in DOMAIN medData.brand_names :
                 ~IncludesCI(medData.generic_names, medData.brand_names[i])}, 1)]

MergeDescription(medData, fda) ==
    IF fda.what_is_description # <<>>
    THEN [medData EXCEPT !.what_is_description = fda.what_is_description]
    ELSE medData

\* the merge block entered without the `if (fdaData)` test
MergeFDAUnguarded(medData, fda) ==
    MergeDescription(
        RemoveGenericsFromBrands(
            MergeBrandNames(
                MergeGenericNames(MergeDrugClass(medData, fda), fda), fda)), fda)

MergeFDA(medData, fda) ==
    IF ~fda.found THEN medData
    ELSE MergeDescription(
             RemoveGenericsFromBrands(
                 MergeBrandNames(
                     MergeGenericNames(MergeDrugClass(medData, fda), fda), fda)), fda)

\* allAliases, with a filter that compares names as written
AllAliasesCaseSensitive(medData) ==
    LET arr == medData.generic_names \o medData.brand_names
    IN  Pick(arr, {i \in DOMAIN arr :
                      /\ arr[i] # <<>>
                      /\ arr[i] # medData.title
                      /\ \A j \in 1..(i - 1) : arr[j] # arr[i]}, 1)

\* allAliases
AllAliases(medData) ==
    LET arr == medData.generic_names \o medData.brand_names
    IN  Pick(arr, {i \in DOMAIN arr :
                      /\ arr[i] # <<>>
                      /\ ToLower(arr[i]) # ToLower(medData.title)
                      /\ FirstIndexCI(arr, arr[i]) = i}, 1)

\* what the note written to the vault holds of the record
RenderNote(medData) ==
    [title |-> medData.title, aliases |-> AllAliases(medData),
     generic_names |-> medData.generic_names, brand_names |-> medData.brand_names,
     drug_class |-> medData.drug_class,
     what_is_description |-> medData.what_is_description]

EmptyNote == RenderNote(EmptyMed)

\* a note that was in the vault before any call
OldNote == [EmptyNote EXCEPT !.title = <<"o", "l", "d">>]

\* normalizePath: runs of slashes become one, leading and trailing ones go
RECURSIVE CollapseSlashes(_)
CollapseSlashes(s) ==
    IF Len(s) < 2 THEN s
    ELSE IF s[1] = "/" /\ s[2] = "/" THEN CollapseSlashes(Tail(s))
    ELSE <<s[1]>> \o CollapseSlashes(Tail(s))

RECURSIVE StripLeadingSlashes(_)
StripLeadingSlashes(s) ==
    IF s # <<>> /\ Head(s) = "/" THEN StripLeadingSlashes(Tail(s)) ELSE s

RECURSIVE StripTrailingSlashes(_)
StripTrailingSlashes(s) ==
    IF s # <<>> /\ s[Len(s)] = "/"
    THEN StripTrailingSlashes(SubSeq(s, 1, Len(s) - 1)) ELSE s

NormalizePath(s) == StripTrailingSlashes(StripLeadingSlashes(CollapseSlashes(s)))

\* the medicationsFolder setting, as the user typed it
MedicationsFolder == <<"M", "/">>

TargetDir == NormalizePath(MedicationsFolder)

\* normalizePath(`${medicationsFolder}/${medData.title}.md`)
FilePath(title) == NormalizePath(MedicationsFolder \o <<"/">> \o title \o <<".", "m", "d">>)

\* String.prototype.startsWith
StartsWith(s, prefix) ==
    Len(s) >= Len(prefix) /\ SubSeq(s, 1, Len(prefix)) = prefix

\* getAbstractFileByPath's null
NoFile == <<>>

\* the case-insensitive search over getMarkdownFiles()
MatchesCI(v, filePath) ==
    {p \in DOMAIN v : ToLower(p) = ToLower(filePath) /\ StartsWith(p, TargetDir)}

\* the lookup by exact path only
FindExistingExact(v, filePath) == IF filePath \in DOMAIN v THEN filePath ELSE NoFile

\* existingFile: by exact path first, then case-insensitively
FindExisting(v, filePath) ==
    IF filePath \in DOMAIN v THEN filePath
    ELSE IF MatchesCI(v, filePath) # {} THEN CHOOSE p \in MatchesCI(v, filePath) : TRUE
    ELSE NoFile

\* vault.create / vault.modify taking effect
WriteFile(v, path, note) ==
    [p \in DOMAIN v \cup {path} |-> IF p = path THEN note ELSE v[p]]

\* the messages of the errors generateMedicationNote ends with
NoError == "none"
NoteExists == "Medication note already exists"
FolderExistsError == "Folder already exists."
FileNotFound == "Could not find file to overwrite"

\* error.message.includes('already exists')
IncludesAlreadyExists(err) == err \in {NoteExists, FolderExistsError}

\* what the caller shows once the call settled: promptForMedicationName passes
\* allowOverwrite = false, convertCurrentMedicationNote passes true
CallerNotice(allowOverwrite, err) ==
    IF allowOverwrite
    THEN (IF err = NoError THEN "converted" ELSE "convert-error")
    ELSE IF err = NoError THEN "created"
    ELSE IF IncludesAlreadyExists(err) THEN "conflict"
    ELSE "error"

IdleCall ==
    [pc |-> "idle", input |-> EmptyMed, allowOverwrite |-> FALSE, medData |-> EmptyMed,
     fdaData |-> NoFda, enriched |-> FALSE, note |-> EmptyNote, existingFile |-> NoFile, ret |-> <<>>, err |-> NoError,
     notice |-> "none", overlapped |-> FALSE]

InFlight(call) == call.pc \notin {"idle", "done"}

\* the call returns `path`
Returned(call, path) ==
    [call EXCEPT !.pc = "done", !.ret = path,
                 !.notice = CallerNotice(call.allowOverwrite, NoError)]

\* the call throws an error with message `err`
Threw(call, err) ==
    [call EXCEPT !.pc = "done", !.err = err,
                 !.notice = CallerNotice(call.allowOverwrite, err)]

\* the existence branch without its allowOverwrite test
StorageBranchAlwaysOverwrite(call, v) ==
    LET existingFile == FindExisting(v, FilePath(call.medData.title))
    IN  IF existingFile # NoFile
        THEN [call EXCEPT !.pc = "modify", !.existingFile = existingFile]
        ELSE [call EXCEPT !.pc = "create"]

\* from the lookup of existingFile to the next await (or the throw)
StorageBranch(call, v) ==
    LET existingFile == FindExisting(v, FilePath(call.medData.title))
    IN  IF existingFile # NoFile
        THEN IF call.allowOverwrite
             THEN [call EXCEPT !.pc = "modify", !.existingFile = existingFile]
             ELSE Threw(call, NoteExists)
        ELSE [call EXCEPT !.pc = "create"]

\* lists of at most n names drawn from `names`
NameLists(names, n) == UNION {[1..k -> names] : k \in 0..n}

Candidate(title, generics, brands, class, description) ==
    [title |-> title, generic_names |-> generics, brand_names |-> brands,
     drug_class |-> class, what_is_description |-> description]

ClassJ == << <<"J">> >>
ClassK == << <<"K">> >>
TextD == <<"D">>
TextE == <<"E">>

\* the candidates the merge is explored on: a bare one and one that brings a
\* class and a description, each with every pair of short name lists, and with
\* the brand list of the README example (a brand, the same in capitals, a longer one)
RichCandidates ==
    { Candidate(x[1], g, b, x[2], x[3]) :
        x \in { << <<"a", "b">>, <<>>, <<>> >>,
                << <<"A", "B", " ", "c", "d">>, ClassJ, TextE >> },
        g \in NameLists({<<>>, ABup, Cd}, MaxNames),
        b \in NameLists({<<>>, Ab, ABup, Cd}, MaxNames) \cup {<<Ab, ABup, AbCd>>} }

\* the label records the merge is explored on
RichFdaAnswers ==
    {FdaFailed, FdaNoData} \cup
    { FdaOk(x[1], b, x[2], x[3], x[4]) :
        x \in { << <<>>, FdaField(FALSE, <<>>), FdaField(FALSE, <<>>), <<>> >>,
                << <<ABup>>, FdaField(TRUE, ClassK), FdaField(TRUE, ClassJ), TextD >>,
                << << <<"c", "d">> >>, FdaField(FALSE, <<>>), FdaField(TRUE, ClassJ), <<>> >> },
        b \in {<<>>, <<ABup>>, <<Cd, <<>> >>} }

\* the candidates storage is explored on: what a search returns for a typed name
StoreCandidates ==
    { Candidate(t, <<>>, <<t>>, <<>>, <<>>) : t \in {<<"a", "b">>, <<"A", "B">>, <<"c", "d">>} }

StoreFdaAnswers ==
    {FdaNoData, FdaOk(<< <<"c", "d">> >>, <<>>, FdaField(FALSE, <<>>), FdaField(FALSE, <<>>), TextD)}

\* the vaults a call may find: no folder, an empty folder, a note the plugin
\* wrote, a note the user named in lower case, the same in another folder
InitialVaults ==
    { [folder |-> FALSE, files |-> {}],
      [folder |-> TRUE, files |-> {}],
      [folder |-> TRUE, files |-> {<<"M", "/", "A", "b", ".", "m", "d">>}],
      [folder |-> TRUE, files |-> {<<"M", "/", "a", "b", ".", "m", "d">>}],
      [folder |-> TRUE, files |-> {<<"m", "/", "a", "b", ".", "m", "d">>}] }

NoteIdle ==
    /\ vault = [p \in {} |-> OldNote]
    /\ folderExists = FALSE
    /\ calls = [c \in CallIds |-> IdleCall]

(***************************************************************************)
(* searchRxNorm as a function of the answers it awaits: one call is its    *)
(* position, its locals `results` and `seenNames`, and the answers it has  *)
(* consumed so far                                                         *)
(***************************************************************************)
\* what one await of searchRxNorm settles with: a list request (its length
\* n, or a failure), the item of a list (its text, score, whether its own
\* rxcui.json lookup answers) and the details of the concept behind it
DetailNamed(name) ==
    [props |-> PropsAnswer("ok", name), related |-> RelatedAnswer("ok", <<>>)]

ListAnswer(n, failed) ==
    [n |-> n, failed |-> failed, named |-> TRUE, text |-> <<>>, score |-> 0,
     lookup |-> "ok", detail |-> DetailNamed(<<>>)]

ItemAnswer(text, detail) ==
    [n |-> 0, failed |-> FALSE, named |-> TRUE, text |-> text, score |-> 0,
     lookup |-> "ok", detail |-> detail]

\* a call that has not been made
IdleSearch ==
    [pc |-> "idle", query |-> <<>>, results |-> <<>>, seen |-> {}, left |-> 0,
     sub |-> 0, ret |-> <<>>, log |-> <<>>, overlapped |-> FALSE]

\* searchMedications(query), up to its first await
StartOn(q) ==
    IF TooShort(Trim(q)) THEN [IdleSearch EXCEPT !.pc = "done", !.query = q]
    ELSE [IdleSearch EXCEPT !.pc = "s1", !.query = q]

\* the call, resumed with the answer a; seen is the seenNames set it reads
StepOn(call, seen, a) ==
    LET details == GetRxNormDetails(a.detail.props, a.detail.related)
        name == ToLower(a.text)
        last == call.left = 1
    IN  CASE call.pc = "s1" ->
               IF a.failed THEN [call EXCEPT !.left = 0, !.pc = "s2"]
               ELSE [call EXCEPT !.left = Min(a.n, ExactLimit),
                                 !.pc = IF a.n = 0 THEN "s2" ELSE "s1loop"]
          [] call.pc = "s1loop" ->
               LET isNew == details.found /\ ToLower(details.name) \notin seen
               IN  [call EXCEPT
                      !.seen = IF isNew THEN seen \cup {ToLower(details.name)} ELSE seen,
                      !.results = IF isNew
                                  THEN Append(@, createMedicationResult(details, "rx", 100, TRUE))
                                  ELSE @,
                      !.left = @ - 1,
                      !.pc = IF last THEN "s2" ELSE "s1loop"]
          [] call.pc = "s2" ->
               IF a.failed THEN [call EXCEPT !.left = 0, !.pc = "s3"]
               ELSE [call EXCEPT !.left = Min(a.n, ApproxLimit),
                                 !.pc = IF a.n = 0 THEN "s3" ELSE "s2loop"]
          [] call.pc = "s2loop" ->
               IF ~a.named THEN [call EXCEPT !.left = 0, !.pc = "s3"]
               ELSE LET score == IF a.score = 0 THEN 90 ELSE a.score
                    IN  [call EXCEPT
                           !.seen = seen \cup {name},
                           !.results = IF name \notin seen /\ details.found
                                       THEN Append(@, createMedicationResult(details, "rx",
                                                                            score, TRUE))
                                       ELSE @,
                           !.left = @ - 1,
                           !.pc = IF last THEN "s3" ELSE "s2loop"]
          [] call.pc = "s3" ->
               IF a.failed THEN [call EXCEPT !.left = 0, !.pc = AfterSpelling(call.results)]
               ELSE [call EXCEPT !.left = Min(a.n, SpellLimit),
                                 !.pc = IF a.n = 0 THEN AfterSpelling(call.results)
                                        ELSE "s3loop"]
          [] call.pc = "s3loop" ->
               IF ~a.named THEN [call EXCEPT !.left = 0, !.pc = AfterSpelling(call.results)]
               ELSE IF name \notin seen /\ a.lookup = Failed
               THEN [call EXCEPT !.seen = seen \cup {name}, !.left = 0,
                                 !.pc = AfterSpelling(call.results)]
               ELSE LET pushed == IF name \notin seen /\ a.lookup = "ok" /\ details.found
                                  THEN Append(call.results,
                                              createMedicationResult(details, "rx", 85, TRUE))
                                  ELSE call.results
                    IN  [call EXCEPT
                           !.seen = seen \cup {name},
                           !.results = pushed,
                           !.left = @ - 1,
                           !.pc = IF last THEN AfterSpelling(pushed) ELSE "s3loop"]
          [] call.pc = "s4" ->
               IF call.results[1].rxcui = NoRxcui \/ a.failed
               THEN [call EXCEPT !.left = 0, !.pc = "rank"]
               ELSE [call EXCEPT !.left = a.n, !.pc = IF a.n = 0 THEN "rank" ELSE "s4group"]
          [] call.pc = "s4group" ->
               IF a.n > 0 /\ Len(call.results) < MaxResults
               THEN [call EXCEPT !.sub = Min(a.n, ConceptLimit), !.pc = "s4concept"]
               ELSE [call EXCEPT !.sub = 0, !.left = @ - 1,
                                 !.pc = IF last THEN "rank" ELSE "s4group"]
          [] call.pc = "s4concept" ->
               IF ~a.named THEN [call EXCEPT !.left = 0, !.sub = 0, !.pc = "rank"]
               ELSE LET concept == [found |-> TRUE, name |-> a.text,
                                    generic_names |-> <<>>, brand_names |-> <<a.text>>,
                                    drug_class |-> <<>>]
                    IN  [call EXCEPT
                           !.seen = seen \cup {name},
                           !.results = IF name \notin seen
                                       THEN Append(@, createMedicationResult(concept, "rx",
                                                                            75, TRUE))
                                       ELSE @,
                           !.sub = @ - 1,
                           !.left = IF call.sub = 1 THEN @ - 1 ELSE @,
                           !.pc = IF call.sub > 1 THEN "s4concept"
                                  ELSE IF last THEN "rank" ELSE "s4group"]
          [] call.pc = "rank" ->
               [call EXCEPT
                  !.ret = SearchReturn(Trim(call.query),
                                       [threw |-> FALSE, value |-> RankResults(call.results)]),
                  !.pc = "done"]
          [] OTHER -> call

\* the call after it has consumed the answers of log from the i-th on, with
\* no other call around: the set it reads is its own
RECURSIVE Replay(_, _, _)
Replay(call, log, i) ==
    IF i > Len(log) THEN call
    ELSE Replay(StepOn(call, call.seen, log[i]), log, i + 1)

\* searchMedications(query) alone, against the answers of log
RunAlone(query, log) == Replay(StartOn(query), log, 1)

\* the queries of the two calls
PairQueries == {Ab, <<" ", "z", "y">>}

\* the answers the upstream source may give to the request a call is waiting for
PairAnswers(pc) ==
    CASE pc \in {"s1", "s3", "s4"} -> {ListAnswer(0, TRUE), ListAnswer(1, FALSE)}
      [] pc = "s2" -> {ListAnswer(0, FALSE), ListAnswer(1, FALSE)}
      [] pc = "s1loop" -> {ItemAnswer(<<>>, DetailNamed(Ab))}
      [] pc = "s2loop" -> {ItemAnswer(ABup, DetailNamed(Ab)), ItemAnswer(Zy, DetailNamed(Zy))}
      [] pc = "s3loop" -> {ItemAnswer(Zy, DetailNamed(Zy)), ItemAnswer(Cd, DetailNamed(Cd))}
      [] pc = "s4group" -> {ListAnswer(1, FALSE)}
      [] pc = "s4concept" -> {ItemAnswer(ABup, DetailNamed(<<>>)), ItemAnswer(Cd, DetailNamed(<<>>))}
      [] OTHER -> {ListAnswer(0, FALSE)}

\* the seenNames set the call c reads and writes: its own local
SeenByAny(p, c) == UNION {p[d].seen : d \in DOMAIN p}

SeenBy(p, c) == p[c].seen

PairIdle == pair = [c \in CallIds |-> IdleSearch]

(***************************************************************************)
(* Prescription notes: the finish date                                     *)
(***************************************************************************)
\* largest days-supply value of an enumerated form
MaxSupply == 90

DigitVal(c) ==
    CASE c = "0" -> 0 [] c = "1" -> 1 [] c = "2" -> 2 [] c = "3" -> 3 [] c = "4" -> 4
      [] c = "5" -> 5 [] c = "6" -> 6 [] c = "7" -> 7 [] c = "8" -> 8 [] c = "9" -> 9

DigitChar(n) ==
    CASE n = 0 -> "0" [] n = 1 -> "1" [] n = 2 -> "2" [] n = 3 -> "3" [] n = 4 -> "4"
      [] n = 5 -> "5" [] n = 6 -> "6" [] n = 7 -> "7" [] n = 8 -> "8" [] n = 9 -> "9"

\* moment('YYYY-MM-DD'): the calendar date a date input's value denotes
ParseDate(s) ==
    [y |-> 1000 * DigitVal(s[1]) + 100 * DigitVal(s[2]) + 10 * DigitVal(s[3]) + DigitVal(s[4]),
     m |-> 10 * DigitVal(s[6]) + DigitVal(s[7]),
     d |-> 10 * DigitVal(s[9]) + DigitVal(s[10])]

\* .format('YYYY-MM-DD'): zero-padded year, month and day
FormatDate(date) ==
    << DigitChar(date.y \div 1000), DigitChar((date.y \div 100) % 10),
       DigitChar((date.y \div 10) % 10), DigitChar(date.y % 10), "-",
       DigitChar(date.m \div 10), DigitChar(date.m % 10), "-",
       DigitChar(date.d \div 10), DigitChar(date.d % 10) >>

IsLeapYear(y) == y % 4 = 0 /\ (y % 100 # 0 \/ y % 400 = 0)

\* a calendar in which February always has 28 days
DaysInMonthNoLeap(y, m) ==
    IF m = 2 THEN 28 ELSE IF m \in {4, 6, 9, 11} THEN 30 ELSE 31

DaysInMonth(y, m) ==
    IF m = 2 THEN (IF IsLeapYear(y) THEN 29 ELSE 28)
    ELSE IF m \in {4, 6, 9, 11} THEN 30 ELSE 31

\* the first day of the month after that of `date`
NextMonth(date) ==
    IF date.m < 12 THEN [date EXCEPT !.m = date.m + 1, !.d = 1]
    ELSE [y |-> date.y + 1, m |-> 1, d |-> 1]

\* moment.add(n, 'days') for n > 0: n calendar days later, rolling over the
\* ends of months and years
RECURSIVE AddDays(_, _)
AddDays(date, n) ==
    IF date.d + n <= DaysInMonth(date.y, date.m) THEN [date EXCEPT !.d = date.d + n]
    ELSE AddDays(NextMonth(date), n - (DaysInMonth(date.y, date.m) - date.d + 1))

\* the dateFinished that createPrescriptionNote computes from the form data
DateFinished(data) ==
    IF data.obtainedDate # <<>> /\ data.daysSupply > 0
    THEN FormatDate(AddDays(ParseDate(data.obtainedDate), data.daysSupply))
    ELSE <<>>

\* values of the "Prescription Obtained Date" date input: empty, or a date
ObtainedDates ==
    { <<>>,
      <<"2", "0", "2", "5", "-", "0", "8", "-", "0", "1">>,
      <<"2", "0", "2", "4", "-", "0", "2", "-", "0", "1">>,
      <<"2", "0", "2", "5", "-", "0", "2", "-", "0", "1">>,
      <<"2", "0", "2", "5", "-", "1", "2", "-", "0", "9">>,
      <<"2", "1", "0", "0", "-", "0", "1", "-", "3", "1">>,
      <<"1", "9", "9", "9", "-", "1", "2", "-", "3", "1">> }

\* values of daysSupply: parseInt(value) || 0 of the "Days Supply" text
SupplyValues == (-1)..MaxSupply

RxForm == [pc |-> "form", obtainedDate |-> <<>>, daysSupply |-> 0, dateFinished |-> <<>>]

RxIdle == rxNote = RxForm

(***************************************************************************)
(* Description Extractor: createCleanDescription.  Each regular expression *)
(* is computed on the characters: where its match starts, what its groups  *)
(* capture.  The only white space of the model's texts is the space, and   *)
(* the texts hold no line terminator, so `.` matches every character.      *)
(***************************************************************************)
Least(S) == CHOOSE i \in S : \A j \in S : i <= j

Greatest(S) == CHOOSE i \in S : \A j \in S : j <= i

\* s.slice(i - 1)
From(s, i) == SubSeq(s, i, Len(s))

\* the literal lit stands in s at position i; under the i flag lit is lower-case
At(s, i, lit) ==
    i >= 1 /\ i + Len(lit) - 1 <= Len(s) /\ SubSeq(s, i, i + Len(lit) - 1) = lit

AtCI(s, i, lit) ==
    i >= 1 /\ i + Len(lit) - 1 <= Len(s) /\ ToLower(SubSeq(s, i, i + Len(lit) - 1)) = lit

\* String.prototype.includes, and RegExp.prototype.test of a literal under the i flag
HasText(s, lit) == \E i \in 1..Len(s) : At(s, i, lit)

HasTextCI(s, lit) == \E i \in 1..Len(s) : AtCI(s, i, lit)

\* the first position from i on whose character is outside Class: where a
\* greedy run of Class that starts at i ends
RunEnd(s, i, Class) == Least({j \in i..(Len(s) + 1) : j = Len(s) + 1 \/ s[j] \notin Class})

\* String.prototype.replace of every match of a literal pattern, left to right:
\* the text before the first match, the replacement, the rest replaced alike
RECURSIVE ReplaceEvery(_, _, _, _)
ReplaceEvery(s, lit, rep, ci) ==
    LET at == {i \in 1..Len(s) : IF ci THEN AtCI(s, i, lit) ELSE At(s, i, lit)}
    IN  IF at = {} THEN s
        ELSE SubSeq(s, 1, Least(at) - 1) \o rep
                \o ReplaceEvery(From(s, Least(at) + Len(lit)), lit, rep, ci)

ReplaceAll(s, lit, rep) == ReplaceEvery(s, lit, rep, FALSE)

ReplaceAllCI(s, lit, rep) == ReplaceEvery(s, lit, rep, TRUE)

\* where <[^>]+> matches: a '<', at least one character that is not '>', a '>'
TagEnd(s, i) == Least({j \in (i + 1)..Len(s) : s[j] = ">"})

TagStarts(s) ==
    {i \in 1..Len(s) : /\ s[i] = "<"
                       /\ \E j \in (i + 2)..Len(s) : s[j] = ">"
                       /\ s[i + 1] # ">"}

\* replace(/<[^>]+>/g, '')
RECURSIVE RemoveTags(_)
RemoveTags(s) ==
    IF TagStarts(s) = {} THEN s
    ELSE LET i == Least(TagStarts(s))
         IN  SubSeq(s, 1, i - 1) \o RemoveTags(From(s, TagEnd(s, i) + 1))

\* replace(/\s+/g, ' '): every run of spaces becomes one space
RECURSIVE CollapseSpaces(_)
CollapseSpaces(s) ==
    LET runs == {i \in 1..(Len(s) - 1) : s[i] = " " /\ s[i + 1] = " "}
    IN  IF runs = {} THEN s
        ELSE SubSeq(s, 1, Least(runs))
                \o CollapseSpaces(From(s, RunEnd(s, Least(runs), {" "})))

\* replace(/^\d+(\.\d+)?\s+[A-Z\s]+(?=\s+[A-Z][a-z])/g, ''): d and f are the
\* positions after \d+ and after (\.\d+)?, r the one after the longest run of
\* capitals and spaces; the run is given back up to the last place where a
\* space, a capital and a small letter follow
StripHeader(s) ==
    LET d == RunEnd(s, 1, Digits)
        f == IF d <= Len(s) /\ s[d] = "." /\ RunEnd(s, d + 1, Digits) > d + 1
             THEN RunEnd(s, d + 1, Digits) ELSE d
        r == RunEnd(s, f + 1, CapitalLetters \cup {" "})
        ends == {e \in (f + 1)..(r - 1) :
                    /\ e + 3 <= Len(s)
                    /\ s[e + 1] = " "
                    /\ s[e + 2] \in CapitalLetters
                    /\ s[e + 3] \in Letters}
    IN  IF d > 1 /\ f <= Len(s) /\ s[f] = " " /\ ends # {}
        THEN From(s, Greatest(ends) + 1) ELSE s

\* `clean` before the strategies
CleanText(indication) ==
    StripHeader(Trim(CollapseSpaces(
        ReplaceAll(ReplaceAll(RemoveTags(indication),
                              << "&", "n", "b", "s", "p", ";" >>, <<" ">>),
                   << "&", "a", "m", "p", ";" >>, <<"&">>))))

\* (.+?)(?:\.|$) from position a: the shortest non-empty text that a period or
\* the end of the string follows
LazyCapture(s, a) ==
    SubSeq(s, a, Least({e \in a..Len(s) : e = Len(s) \/ s[e + 1] = "."}))

\* \s*(.+?)(?:\.|$) from position b <= Len(s): the spaces are skipped; when
\* nothing but spaces is left, the last of them is given back to the group
CaptureAfterSpaces(s, b) ==
    LET q == RunEnd(s, b, {" "})
    IN  IF q <= Len(s) THEN LazyCapture(s, q) ELSE <<" ">>

\* `Used to treat ${text.toLowerCase()}.`
UsedToTreat(text) ==
    << "U", "s", "e", "d", " ", "t", "o", " ", "t", "r", "e", "a", "t",
       " " >> \o ToLower(text) \o <<".">>

\* ---- strategy 1 ----
TreatmentPhrases ==
    { << "i", "n", "d", "i", "c", "a", "t", "e", "d", " ", "f", "o", "r" >>,
      << "u", "s", "e", "d", " ", "f", "o", "r" >>,
      << "t", "r", "e", "a", "t", "m", "e", "n", "t", " ", "o", "f" >>,
      << "f", "o", "r", " ", "t", "h", "e", " ", "t", "r", "e", "a", "t",
         "m", "e", "n", "t", " ", "o", "f" >> }

\* the positions where the pattern of strategy 1 matches: a phrase, a colon and
\* at least one character after the colon
TreatmentStarts(s) ==
    {p \in 1..Len(s) : \E ph \in TreatmentPhrases :
        AtCI(s, p, ph) /\ p + Len(ph) < Len(s) /\ s[p + Len(ph)] = ":"}

\* treatmentMatch[1]
TreatmentCapture(s) ==
    LET p == Least(TreatmentStarts(s))
        ph == CHOOSE x \in TreatmentPhrases : AtCI(s, p, x)
    IN  CaptureAfterSpaces(s, p + Len(ph) + 1)

\* the seven replacements of the conditions list; the white space around a
\* phrase is one space, since the text was collapsed
CleanConditions(conditions) ==
    LET c1 == ReplaceAll(conditions, << " ", "A", "c", "u", "t", "e", " ", "T", "r", "e", "a", "t", "m",
                                        "e", "n", "t", " ", "o", "f", " " >>,
                  << ",", " ", "a", "c", "u", "t", "e", " ", "e", "p", "i", "s", "o",
                     "d", "e", "s", " ", "o", "f", " " >>)
        c2 == ReplaceAll(c1, << " ", "A", "d", "j", "u", "n", "c", "t", "i", "v", "e", " ", "T",
                                "r", "e", "a", "t", "m", "e", "n", "t", " ", "o", "f", " " >>,
                  << ",", " ", "a", "s", " ", "a", "d", "d", "-", "o", "n", " ", "t",
                     "r", "e", "a", "t", "m", "e", "n", "t", " ", "f", "o", "r", " " >>)
        c3 == ReplaceAllCI(c2, << " ", "a", "s", "s", "o", "c", "i", "a", "t", "e", "d", " ", "w",
                                  "i", "t", "h", " " >>,
                  << " ", "i", "n", " ", "p", "e", "o", "p", "l", "e", " ", "w", "i",
                     "t", "h", " " >>)
        c4 == ReplaceAll(c3, << "M", "a", "j", "o", "r", " ", "D", "e", "p", "r", "e", "s", "s",
                                "i", "v", "e", " ", "D", "i", "s", "o", "r", "d", "e", "r" >>,
                  << "m", "a", "j", "o", "r", " ", "d", "e", "p", "r", "e", "s", "s",
                     "i", "o", "n" >>)
        c5 == ReplaceAll(c4, << "B", "i", "p", "o", "l", "a", "r", " ", "I", " ", "D", "i", "s",
                                "o", "r", "d", "e", "r" >>,
                  << "b", "i", "p", "o", "l", "a", "r", " ", "d", "i", "s", "o", "r",
                     "d", "e", "r" >>)
        c6 == ReplaceAll(c5, << "A", "u", "t", "i", "s", "t", "i", "c", " ", "D", "i", "s", "o",
                                "r", "d", "e", "r" >>, << "a", "u", "t", "i", "s", "m" >>)
    IN  ReplaceAll(c6, << "T", "o", "u", "r", "e", "t", "t", "e", "'", "s", " ", "D", "i",
                          "s", "o", "r", "d", "e", "r" >>,
            << "T", "o", "u", "r", "e", "t", "t", "e", "'", "s", " ", "s", "y",
               "n", "d", "r", "o", "m", "e" >>)

\* conditions.length > 10
MinConditionLength == 10

Strategy1Conditions(clean) == CleanConditions(Trim(TreatmentCapture(clean)))

\* strategy 1 without its length test
Strategy1AppliesAnyLength(clean) == TreatmentStarts(clean) # {}

Strategy1Applies(clean) ==
    TreatmentStarts(clean) # {} /\ Len(Strategy1Conditions(clean)) > MinConditionLength

\* ---- strategy 2 ----
IndicatedPhrases ==
    { << " ", "i", "s", " ", "i", "n", "d", "i", "c", "a", "t", "e", "d",
         " ", "f", "o", "r", " " >>,
      << " ", "i", "s", " ", "i", "n", "d", "i", "c", "a", "t", "e", "d",
         " ", "i", "n", " " >> }

\* the places where \s+is indicated\s+(?:for|in)\s+ stands with at least one
\* character before it, for (.+?), and one after it, for the second group
IndicatedStarts(s) ==
    {o \in 2..Len(s) : \E ph \in IndicatedPhrases : AtCI(s, o, ph) /\ o + Len(ph) <= Len(s)}

\* indicatedMatch[2]: the match starts at the first character and its lazy
\* first group stops at the first such place
IndicatedCapture(s) ==
    LET o == Least(IndicatedStarts(s))
        ph == CHOOSE x \in IndicatedPhrases : AtCI(s, o, x)
    IN  LazyCapture(s, o + Len(ph))

Strategy2Applies(clean) ==
    IndicatedStarts(clean) # {} /\ Len(Trim(IndicatedCapture(clean))) > MinConditionLength

\* ---- strategy 3 ----
DosageForms ==
    { << "g", "e", "l" >>, << "c", "r", "e", "a", "m" >>,
      << "t", "a", "b", "l", "e", "t" >>,
      << "c", "a", "p", "s", "u", "l", "e" >>,
      << "s", "o", "l", "u", "t", "i", "o", "n" >> }

BeForms == { << "i", "s" >>, << "a", "r", "e" >> }

\* [A-Z] and [a-z] under the i flag
IsLetter(c) == LowerOf(c) \in Letters

\* (?:is|are)\s+ stands at i and leaves a character for the second group
BeAt(s, i) == \E v \in BeForms : AtCI(s, i, v \o <<" ">>) /\ i + Len(v) < Len(s)

\* where .*?(?:is|are)\s+ can end its lazy search from position `from` on
BeStarts(s, from) == {i \in from..Len(s) : BeAt(s, i)}

\* where \s+(?:gel|...) can stand and the rest of the pattern still matches:
\* w is the position of the dosage form
FormStarts(s) ==
    {w \in 2..Len(s) : /\ s[w - 1] = " "
                       /\ \E form \in DosageForms :
                             AtCI(s, w, form) /\ BeStarts(s, w + Len(form)) # {}}

\* [A-Z][a-z]+(?:\s+[A-Z][a-z]+)* matches s from p up to the space before w:
\* words of two letters or more, one space between them
NameRun(s, p, w) ==
    /\ p + 3 <= w
    /\ \A i \in p..(w - 2) :
          \/ s[i] = " " /\ i > p
          \/ /\ IsLetter(s[i])
             /\ \/ i > p /\ IsLetter(s[i - 1])
                \/ i < w - 2 /\ IsLetter(s[i + 1])

NameStarts(s, w) == {p \in 1..(w - 3) : NameRun(s, p, w)}

\* medNameMatch[2]: the match starts at the leftmost p; the greedy first
\* group reaches the last dosage form it can, the lazy .*? the first is/are
MedNameMatches(s) == FormStarts(s) # {} /\ \E w \in FormStarts(s) : NameStarts(s, w) # {}

MedNameCapture(s) ==
    LET p == Least(UNION {NameStarts(s, w) : w \in FormStarts(s)})
        w == Greatest({x \in FormStarts(s) : p \in NameStarts(s, x)})
        form == CHOOSE f \in DosageForms : AtCI(s, w, f)
        i == Least(BeStarts(s, w + Len(form)))
        v == CHOOSE b \in BeForms : AtCI(s, i, b \o <<" ">>)
    IN  LazyCapture(s, i + Len(v) + 1)

Strategy3Applies(clean) ==
    /\ MedNameMatches(clean)
    /\ Len(Trim(MedNameCapture(clean))) > MinConditionLength
    /\ HasText(ToLower(Trim(MedNameCapture(clean))), << "i", "n", "d", "i", "c", "a", "t", "e", "d" >>)

\* description.replace(/indicated\s+(?:for|in)\s+/i, ''): the first match only
DropIndicated(description) ==
    LET lits == { << "i", "n", "d", "i", "c", "a", "t", "e", "d", " ", "f", "o", "r",
                     " " >>,
                  << "i", "n", "d", "i", "c", "a", "t", "e", "d", " ", "i", "n", " " >> }
        at == {i \in 1..Len(description) : \E l \in lits : AtCI(description, i, l)}
    IN  IF at = {} THEN description
        ELSE LET i == Least(at)
                 l == CHOOSE x \in lits : AtCI(description, i, x)
             IN  SubSeq(description, 1, i - 1) \o From(description, i + Len(l))

\* ---- strategy 4 ----
SentenceEnders == {".", "!", "?"}

MinSentenceLength == 20
MaxSentenceLength == 200

Keywords ==
    { << "t", "r", "e", "a", "t" >>, << "i", "n", "d", "i", "c", "a", "t", "e", "d" >>,
      << "u", "s", "e", "d" >>, << "t", "h", "e", "r", "a", "p", "y" >>,
      << "c", "o", "n", "d", "i", "t", "i", "o", "n" >>, << "a", "c", "n", "e" >>,
      << "d", "e", "r", "m", "a", "t", "i", "t", "i", "s" >>,
      << "p", "s", "o", "r", "i", "a", "s", "i", "s" >> }

\* clean.split(/[.!?]+/): the pieces between runs of enders; the empty pieces
\* split puts at either end never pass the length test and are left out
SentenceStarts(s) ==
    {i \in 1..Len(s) : s[i] \notin SentenceEnders /\ (i = 1 \/ s[i - 1] \in SentenceEnders)}

SentenceAt(s, i) ==
    SubSeq(s, i, Least({j \in i..(Len(s) + 1) : j = Len(s) + 1 \/ s[j] \in SentenceEnders}) - 1)

Meaningful(sentence) ==
    LET trimmed == Trim(sentence)
    IN  /\ Len(trimmed) > MinSentenceLength
        /\ Len(trimmed) < MaxSentenceLength
        /\ \E kw \in Keywords : HasTextCI(trimmed, kw)

MeaningfulStarts(s) == {i \in SentenceStarts(s) : Meaningful(SentenceAt(s, i))}

\* trimmed.charAt(0).toUpperCase() + trimmed.slice(1).toLowerCase() + '.'
SentenceCase(trimmed) == <<UpperOf(Head(trimmed))>> \o ToLower(Tail(trimmed)) \o <<".">>

\* ---- strategy 5 ----
AcneWords ==
    { << "a", "c", "n", "e" >>, << "c", "o", "m", "e", "d", "o", "n", "e" >>,
      << "b", "l", "a", "c", "k", "h", "e", "a", "d" >>,
      << "w", "h", "i", "t", "e", "h", "e", "a", "d" >>,
      << "p", "i", "m", "p", "l", "e" >> }

AcneFallback ==
    << "U", "s", "e", "d", " ", "t", "o", " ", "t", "r", "e", "a", "t",
       " ", "a", "c", "n", "e", " ", "a", "n", "d", " ", "r", "e", "l",
       "a", "t", "e", "d", " ", "s", "k", "i", "n", " ", "c", "o", "n",
       "d", "i", "t", "i", "o", "n", "s", "." >>

\* a variant in which a first pattern that matches ends the search for a
\* strategy, whether or not its conditions are long enough
StrategyOfFirstMatch(clean) ==
    IF TreatmentStarts(clean) # {} THEN (IF Strategy1Applies(clean) THEN 1 ELSE 0)
    ELSE IF Strategy2Applies(clean) THEN 2
    ELSE IF Strategy3Applies(clean) THEN 3
    ELSE IF MeaningfulStarts(clean) # {} THEN 4
    ELSE IF \E word \in AcneWords : HasTextCI(clean, word) THEN 5
    ELSE 0

\* the strategy whose return statement ends the call; 0 when none does
StrategyOf(clean) ==
    IF Strategy1Applies(clean) THEN 1
    ELSE IF Strategy2Applies(clean) THEN 2
    ELSE IF Strategy3Applies(clean) THEN 3
    ELSE IF MeaningfulStarts(clean) # {} THEN 4
    ELSE IF \E word \in AcneWords : HasTextCI(clean, word) THEN 5
    ELSE 0

createCleanDescription(indication) ==
    LET clean == CleanText(indication)
        k == StrategyOf(clean)
    IN  CASE k = 1 -> UsedToTreat(Strategy1Conditions(clean))
          [] k = 2 -> UsedToTreat(Trim(IndicatedCapture(clean)))
          [] k = 3 -> UsedToTreat(DropIndicated(Trim(MedNameCapture(clean))))
          [] k = 4 -> SentenceCase(Trim(SentenceAt(clean, Least(MeaningfulStarts(clean)))))
          [] k = 5 -> AcneFallback
          [] OTHER -> <<>>

\* ---- the indication texts the label source is taken to return ----
\* a text is a lead, a phrase, a list of conditions and a tail
Calibration ==
    << "1", " ", "I", "N", "D", "I", "C", "A", "T", "I", "O", "N", "S",
       " ", "A", "N", "D", " ", "U", "S", "A", "G", "E", " ", "A", "B",
       "I", "L", "I", "F", "Y", " ", "(", "a", "r", "i", "p", "i", "p",
       "r", "a", "z", "o", "l", "e", ")", " ", "T", "a", "b", "l", "e",
       "t", "s", " ", "a", "r", "e", " ", "i", "n", "d", "i", "c", "a",
       "t", "e", "d", " ", "f", "o", "r", " ", "t", "h", "e", " ", "t",
       "r", "e", "a", "t", "m", "e", "n", "t", " ", "o", "f", ":", " ",
       "S", "c", "h", "i", "z", "o", "p", "h", "r", "e", "n", "i", "a" >>

CalibrationLead ==
    << "1", " ", "I", "N", "D", "I", "C", "A", "T", "I", "O", "N", "S",
       " ", "A", "N", "D", " ", "U", "S", "A", "G", "E", " ", "A", "B",
       "I", "L", "I", "F", "Y", " ", "(", "a", "r", "i", "p", "i", "p",
       "r", "a", "z", "o", "l", "e", ")", " ", "T", "a", "b", "l", "e",
       "t", "s", " ", "a", "r", "e", " ", "i", "n", "d", "i", "c", "a",
       "t", "e", "d", " ", "f", "o", "r", " ", "t", "h", "e", " " >>

Leads ==
    { <<>>,
      CalibrationLead,
      << "<", "p", ">", "1", ".", "1", " ", "I", "N", "D", "I", "C", "A",
         "T", "I", "O", "N", "S", " ", " ", "A", "N", "D", " ", "U", "S",
         "A", "G", "E", "<", "/", "p", ">", " ", "A", "b", "i", "l", "i",
         "f", "y", "&", "n", "b", "s", "p", ";", "&", "a", "m", "p", ";",
         " ", "C", "o", " ", "a", "r", "e", " ", "i", "n", "d", "i", "c",
         "a", "t", "e", "d", " ", "f", "o", "r", " ", "t", "h", "e", " " >>,
      << "A", "b", "i", "l", "i", "f", "y", " ", "t", "o", "p", "i", "c",
         "a", "l", " ", "g", "e", "l", " " >> }

\* the phrases of strategy 1 that end in 'treatment of:'
TreatmentOfPhrases ==
    { << "t", "r", "e", "a", "t", "m", "e", "n", "t", " ", "o", "f", ":",
         " " >>,
      << "T", "r", "e", "a", "t", "m", "e", "n", "t", " ", "O", "f", ":" >> }

OtherPhrases ==
    { << "i", "n", "d", "i", "c", "a", "t", "e", "d", " ", "f", "o", "r",
         ":", " " >>,
      << "i", "s", " ", "i", "n", "d", "i", "c", "a", "t", "e", "d", " ",
         "f", "o", "r", " " >>,
      << "u", "s", "e", "d", " ", "i", "n", " " >> }

ConditionLists ==
    { << "S", "c", "h", "i", "z", "o", "p", "h", "r", "e", "n", "i", "a" >>,
      << "a", "c", "n", "e" >>,
      << "d", "e", "r", "m", "a", "t", "i", "t", "i", "s" >>,
      << "a", "s", "t", "i", "g", "m", "a", "t", "i", "s", "m" >>,
      << "A", "u", "t", "i", "s", "t", "i", "c", " ", "D", "i", "s", "o",
         "r", "d", "e", "r" >>,
      << "T", "o", "u", "r", "e", "t", "t", "e", "'", "s", " ", "D", "i",
         "s", "o", "r", "d", "e", "r" >>,
      << "I", "r", "r", "i", "t", "a", "b", "i", "l", "i", "t", "y", " ",
         "A", "s", "s", "o", "c", "i", "a", "t", "e", "d", " ", "w", "i",
         "t", "h", " ", "A", "u", "t", "i", "s", "t", "i", "c", " ", "D",
         "i", "s", "o", "r", "d", "e", "r" >>,
      << "S", "c", "h", "i", "z", "o", "p", "h", "r", "e", "n", "i", "a",
         " ", "A", "c", "u", "t", "e", " ", "T", "r", "e", "a", "t", "m",
         "e", "n", "t", " ", "o", "f", " ", "M", "a", "n", "i", "c", " ",
         "E", "p", "i", "s", "o", "d", "e", "s", " ", "a", "s", "s", "o",
         "c", "i", "a", "t", "e", "d", " ", "w", "i", "t", "h", " ", "B",
         "i", "p", "o", "l", "a", "r", " ", "I", " ", "D", "i", "s", "o",
         "r", "d", "e", "r", " ", "A", "d", "j", "u", "n", "c", "t", "i",
         "v", "e", " ", "T", "r", "e", "a", "t", "m", "e", "n", "t", " ",
         "o", "f", " ", "M", "a", "j", "o", "r", " ", "D", "e", "p", "r",
         "e", "s", "s", "i", "v", "e", " ", "D", "i", "s", "o", "r", "d",
         "e", "r" >>,
      << "p", "a", "i", "n", " ", "t", "r", "e", "a", "t", "m", "e", "n",
         "t", " ", "o", "f", ":", " ", "c", "h", "r", "o", "n", "i", "c",
         " ", "h", "e", "a", "d", "a", "c", "h", "e", "s" >>,
      << "m", "o", "d", "e", "r", "a", "t", "e", " ", "a", "c", "n", "e",
         " ", "w", "h", "e", "n", " ", "t", "h", "e", "r", "a", "p", "y",
         " ", "i", "s", " ", "i", "n", "d", "i", "c", "a", "t", "e", "d",
         " ", "f", "o", "r", " ", "s", "e", "v", "e", "r", "e", " ", "c",
         "a", "s", "e", "s" >> }

Tails ==
    { <<>>,
      << ".", " ", "S", "e", "e", " ", "f", "u", "l", "l", " ", "p", "r",
         "e", "s", "c", "r", "i", "b", "i", "n", "g", " ", "i", "n", "f",
         "o", "r", "m", "a", "t", "i", "o", "n" >>,
      << "!", " ", "A", "s", "k", " ", "a", " ", "d", "o", "c", "t", "o",
         "r", "?", " ", "Y", "e", "s" >> }

Indications ==
    {lead \o phrase \o conditions \o tail :
        lead \in Leads, phrase \in TreatmentOfPhrases \cup OtherPhrases,
        conditions \in ConditionLists, tail \in Tails}

\* no text has been handed to the extractor yet
DxForm == [pc |-> "idle", indication |-> <<>>, description |-> <<>>, again |-> <<>>]

DxIdle == dx = DxForm

(***************************************************************************)
(* The dialogs, commands and settings before anything has happened         *)
(***************************************************************************)
\* resultsContainer as onOpen leaves it, no input event yet
PickerForm ==
    [ box           |-> <<>>,
      inputs        |-> 0,
      pending       |-> {},
      searchResults |-> <<>>,
      shown         |-> [message |-> "Type at least 2 characters to search the RxNorm medication database...",
                         results |-> <<>>] ]

PickerIdle == picker = PickerForm

\* convertCurrentMedicationNote has not been invoked
ConvForm ==
    [ pc             |-> "idle",
      active         |-> <<>>,
      before         |-> {},
      medicationName |-> <<>>,
      searched       |-> FALSE,
      searchResults  |-> <<>>,
      notice         |-> "none" ]

ConvIdle == conv = ConvForm

\* PrescriptionModal as its constructor and onOpen leave it: this.data, the
\* control of the medication field, and the calls of createPrescriptionNote
RxModalForm ==
    [ open               |-> TRUE,
      medicationName     |-> <<>>,
      prescriptionNumber |-> <<>>,
      control            |-> "dropdown",
      selected           |-> <<>>,
      textValue          |-> <<>>,
      clicks             |-> 0,
      creating           |-> 0,
      invokedWith        |-> {},
      notice             |-> "none" ]

RxModalIdle == rxModal = RxModalForm

\* DEFAULT_SETTINGS.pharmacyList
DefaultPharmacies ==
    << << "C", "V", "S", " ", "P", "h", "a", "r", "m", "a", "c", "y" >>,
       << "W", "a", "l", "g", "r", "e", "e", "n", "s" >>,
       << "R", "i", "t", "e", " ", "A", "i", "d" >> >>

\* the settings tab as display() draws it from the default settings: the two
\* lists, the rows shown for each, the people offered in the dropdown, the
\* handlers waiting for saveSettings, and what each Remove click deleted
ListsForm ==
    [ pharmacyList         |-> DefaultPharmacies,
      selectedPatientNotes |-> <<>>,
      pharmacyRows         |-> DefaultPharmacies,
      patientRows          |-> <<>>,
      offered              |-> {},
      saving               |-> [pharmacy |-> 0, patientAdd |-> 0, patientRemove |-> 0],
      edits                |-> 0,
      removals             |-> {} ]

ListsIdle == lists = ListsForm

\* the form data createPrescriptionNote reads for the names of the files
NoRxData ==
    [ fillDate |-> <<>>, pharmacy |-> <<>>, medicationName |-> <<>>, dosage |-> <<>>,
      prescriptionNumber |-> <<>>, drugLabel |-> <<>> ]

\* createPrescriptionNote has not been invoked; `files` is the vault
LabelForm ==
    [ pc                |-> "idle",
      data              |-> NoRxData,
      before            |-> [p \in {} |-> ""],
      files             |-> [p \in {} |-> ""],
      newFilePath       |-> <<>>,
      drugLabelFileName |-> <<>>,
      renameCalled      |-> FALSE,
      renamed           |-> FALSE,
      createCalled      |-> FALSE,
      created           |-> <<>>,
      drugLabelLine     |-> <<>>,
      raised            |-> FALSE ]

LabelIdle == labelRun = LabelForm

UiIdle == PickerIdle /\ ConvIdle /\ RxModalIdle /\ ListsIdle /\ LabelIdle

(***************************************************************************)
(* searchMedications as a process                                          *)
(***************************************************************************)
SearchInit ==
    /\ sQuery = <<>>
    /\ sPc = "idle"
    /\ sResults = <<>>
    /\ sSeen = {}
    /\ sLeft = 0
    /\ sSub = 0
    /\ sThrew = {}
    /\ sRequests = {}
    /\ sRet = <<>>
    /\ rich \in BOOLEAN
    /\ NoteIdle
    /\ RxIdle
    /\ DxIdle
    /\ PairIdle
    /\ UiIdle

\* searchMedications(query), up to its first await
Search(q) ==
    /\ sPc = "idle"
    /\ sQuery' = q
    /\ IF TooShort(Trim(q))
       THEN sPc' = "done" /\ sRet' = <<>>
       ELSE sPc' = "s1" /\ sRet' = sRet
    /\ UNCHANGED <<sResults, sSeen, sLeft, sSub, sThrew, sRequests, rich>>
    /\ UNCHANGED nonSearchVars

\* Strategy 1: the rxcui.json request and its answer
ExactLookup ==
    /\ sPc = "s1"
    /\ sRequests' = sRequests \cup {"rxcui"}
    /\ \E n \in 0..ListBound(rich), failed \in FailChoices(rich) :
         IF failed
         THEN sThrew' = sThrew \cup {1} /\ sLeft' = 0 /\ sPc' = "s2"
         ELSE /\ sThrew' = sThrew
              /\ sLeft' = Min(n, ExactLimit)
              /\ sPc' = IF n = 0 THEN "s2" ELSE "s1loop"
    /\ UNCHANGED <<sQuery, sResults, sSeen, sSub, sRet, rich>>
    /\ UNCHANGED nonSearchVars

\* Strategy 1: one iteration of the loop over rxcuis
ExactItem ==
    /\ sPc = "s1loop"
    /\ \E ans \in DetailAnswers(rich) :
         LET props == ans.props
             details == GetRxNormDetails(ans.props, ans.related)
             isNew == details.found /\ ToLower(details.name) \notin sSeen
         IN  /\ sRequests' = sRequests \cup DetailRequests(props)
             /\ sSeen' = IF isNew THEN sSeen \cup {ToLower(details.name)} ELSE sSeen
             /\ sResults' = IF isNew
                            THEN Append(sResults,
                                        createMedicationResult(details, "rx", 100, TRUE))
                            ELSE sResults
    /\ sLeft' = sLeft - 1
    /\ sPc' = IF sLeft = 1 THEN "s2" ELSE "s1loop"
    /\ UNCHANGED <<sQuery, sSub, sThrew, sRet, rich>>
    /\ UNCHANGED nonSearchVars

\* one approximateTerm candidate: its text (absent in a malformed item) and score
ApproxChoices(r, seen) ==
    IF r THEN { [named |-> TRUE, text |-> t, score |-> sc] :
                  t \in {NextFresh(seen), ABup}, sc \in ScoreChoices(r) }
         ELSE { [named |-> FALSE, text |-> <<>>, score |-> 0] }
              \cup { [named |-> TRUE, text |-> NextFresh(seen), score |-> sc] :
                       sc \in ScoreChoices(r) }

\* Strategy 2: the approximateTerm.json request and its answer
ApproxLookup ==
    /\ sPc = "s2"
    /\ sRequests' = sRequests \cup {"approximateTerm"}
    /\ \E n \in 0..ListBound(rich), failed \in FailChoices(rich) :
         IF failed
         THEN sThrew' = sThrew \cup {2} /\ sLeft' = 0 /\ sPc' = "s3"
         ELSE /\ sThrew' = sThrew
              /\ sLeft' = Min(n, ApproxLimit)
              /\ sPc' = IF n = 0 THEN "s3" ELSE "s2loop"
    /\ UNCHANGED <<sQuery, sResults, sSeen, sSub, sRet, rich>>
    /\ UNCHANGED nonSearchVars

\* Strategy 2: one iteration of the loop over candidates
ApproxItem ==
    /\ sPc = "s2loop"
    /\ \E cand \in ApproxChoices(rich, sSeen), ans \in DetailAnswers(rich) :
         IF ~cand.named
         THEN \* candidate.candidate.toLowerCase() throws: the catch ends the strategy
              /\ sThrew' = sThrew \cup {2}
              /\ sLeft' = 0
              /\ sPc' = "s3"
              /\ UNCHANGED <<sSeen, sResults, sRequests>>
         ELSE LET candidateName == ToLower(cand.text)
                  props == ans.props
                  details == GetRxNormDetails(ans.props, ans.related)
                  score == IF cand.score = 0 THEN 90 ELSE cand.score
              IN  /\ sThrew' = sThrew
                  /\ sLeft' = sLeft - 1
                  /\ sPc' = IF sLeft = 1 THEN "s3" ELSE "s2loop"
                  /\ IF candidateName \in sSeen
                     THEN UNCHANGED <<sSeen, sResults, sRequests>>
                     ELSE /\ sSeen' = sSeen \cup {candidateName}
                          /\ sRequests' = sRequests \cup DetailRequests(props)
                          /\ sResults' =
                               IF details.found
                               THEN Append(sResults,
                                      createMedicationResult(details, "rx", score, TRUE))
                               ELSE sResults
    /\ UNCHANGED <<sQuery, sSub, sRet, rich>>
    /\ UNCHANGED nonSearchVars

\* one spelling suggestion (not a string in a malformed answer), and what the
\* rxcui.json request for it comes back with
SpellChoices(r, seen) ==
    IF r THEN { [named |-> TRUE, text |-> t, lookup |-> l] :
                  t \in {NextFresh(seen), ABup}, l \in {NoData, "ok"} }
         ELSE { [named |-> FALSE, text |-> <<>>, lookup |-> Failed] }
              \cup { [named |-> TRUE, text |-> NextFresh(seen), lookup |-> l] :
                       l \in {Failed, "ok"} }

\* Strategy 3: the spellingsuggestions.json request and its answer
SpellLookup ==
    /\ sPc = "s3"
    /\ sRequests' = sRequests \cup {"spellingsuggestions"}
    /\ \E n \in 0..ListBound(rich), failed \in FailChoices(rich) :
         IF failed
         THEN /\ sThrew' = sThrew \cup {3}
              /\ sLeft' = 0
              /\ sPc' = AfterSpelling(sResults)
         ELSE /\ sThrew' = sThrew
              /\ sLeft' = Min(n, SpellLimit)
              /\ sPc' = IF n = 0 THEN AfterSpelling(sResults) ELSE "s3loop"
    /\ UNCHANGED <<sQuery, sResults, sSeen, sSub, sRet, rich>>
    /\ UNCHANGED nonSearchVars

\* Strategy 3: one iteration of the loop over suggestions
SpellItem ==
    /\ sPc = "s3loop"
    /\ \E sug \in SpellChoices(rich, sSeen), ans \in DetailAnswers(rich) :
         LET suggestionName == ToLower(sug.text)
             isNew == suggestionName \notin sSeen
             props == ans.props
             details == GetRxNormDetails(ans.props, ans.related)
             pushed == IF details.found
                       THEN Append(sResults,
                                   createMedicationResult(details, "rx", 85, TRUE))
                       ELSE sResults
         IN  IF ~sug.named \/ (isNew /\ sug.lookup = Failed)
             THEN \* suggestion.toLowerCase() or the inner request throws
                  /\ sThrew' = sThrew \cup {3}
                  /\ sLeft' = 0
                  /\ sPc' = AfterSpelling(sResults)
                  /\ sResults' = sResults
                  /\ sSeen' = IF sug.named THEN sSeen \cup {suggestionName} ELSE sSeen
                  /\ sRequests' = IF sug.named THEN sRequests \cup {"rxcui"}
                                  ELSE sRequests
             ELSE /\ sThrew' = sThrew
                  /\ sLeft' = sLeft - 1
                  /\ sSeen' = sSeen \cup {suggestionName}
                  /\ sResults' = IF isNew /\ sug.lookup = "ok" THEN pushed ELSE sResults
                  /\ sRequests' =
                       IF ~isNew THEN sRequests
                       ELSE IF sug.lookup = "ok"
                            THEN sRequests \cup {"rxcui"} \cup DetailRequests(props)
                            ELSE sRequests \cup {"rxcui"}
                  /\ sPc' = IF sLeft = 1 THEN AfterSpelling(sResults') ELSE "s3loop"
    /\ UNCHANGED <<sQuery, sSub, sRet, rich>>
    /\ UNCHANGED nonSearchVars

\* one related concept: its name (absent in a malformed concept)
ConceptChoices(r, seen) ==
    IF r THEN { [named |-> TRUE, name |-> NextFresh(seen)],
                [named |-> TRUE, name |-> ABup],
                [named |-> TRUE, name |-> <<>>] }
         ELSE { [named |-> FALSE, name |-> <<>>],
                [named |-> TRUE, name |-> NextFresh(seen)] }

\* Strategy 4: the related.json request for results[0] and its answer
RelatedLookup ==
    /\ sPc = "s4"
    /\ IF sResults[1].rxcui = NoRxcui
       THEN sPc' = "rank" /\ UNCHANGED <<sThrew, sLeft, sRequests>>
       ELSE /\ sRequests' = sRequests \cup {"relatedConcepts"}
            /\ \E n \in 0..GroupBound(rich), failed \in FailChoices(rich) :
                 IF failed
                 THEN sThrew' = sThrew \cup {4} /\ sLeft' = 0 /\ sPc' = "rank"
                 ELSE /\ sThrew' = sThrew
                      /\ sLeft' = n
                      /\ sPc' = IF n = 0 THEN "rank" ELSE "s4group"
    /\ UNCHANGED <<sQuery, sResults, sSeen, sSub, sRet, rich>>
    /\ UNCHANGED nonSearchVars

\* Strategy 4: the head of one iteration of conceptGroups.forEach
RelatedGroup ==
    /\ sPc = "s4group"
    /\ \E n \in 0..ConceptBound(rich) :
         IF n > 0 /\ Len(sResults) < MaxResults
         THEN /\ sSub' = Min(n, ConceptLimit)
              /\ sPc' = "s4concept"
              /\ sLeft' = sLeft
         ELSE /\ sSub' = 0
              /\ sLeft' = sLeft - 1
              /\ sPc' = IF sLeft = 1 THEN "rank" ELSE "s4group"
    /\ UNCHANGED <<sQuery, sResults, sSeen, sThrew, sRequests, sRet, rich>>
    /\ UNCHANGED nonSearchVars

\* Strategy 4: one iteration of concepts.slice(0, 3).forEach
RelatedConcept ==
    /\ sPc = "s4concept"
    /\ \E concept \in ConceptChoices(rich, sSeen) :
         IF ~concept.named
         THEN \* concept.name.toLowerCase() throws: the catch ends the strategy
              /\ sThrew' = sThrew \cup {4}
              /\ sLeft' = 0
              /\ sSub' = 0
              /\ sPc' = "rank"
              /\ UNCHANGED <<sSeen, sResults>>
         ELSE LET conceptName == ToLower(concept.name)
                  isNew == conceptName \notin sSeen
                  details == [found |-> TRUE, name |-> concept.name,
                              generic_names |-> <<>>, brand_names |-> <<concept.name>>,
                              drug_class |-> <<>>]
              IN  /\ sThrew' = sThrew
                  /\ sSeen' = sSeen \cup {conceptName}
                  /\ sResults' = IF isNew
                                 THEN Append(sResults,
                                        createMedicationResult(details, "rx", 75, TRUE))
                                 ELSE sResults
                  /\ sSub' = sSub - 1
                  /\ sLeft' = IF sSub = 1 THEN sLeft - 1 ELSE sLeft
                  /\ sPc' = IF sSub > 1 THEN "s4concept"
                            ELSE IF sLeft = 1 THEN "rank" ELSE "s4group"
    /\ UNCHANGED <<sQuery, sRequests, sRet, rich>>
    /\ UNCHANGED nonSearchVars

\* the sort and the slice of searchRxNorm, then the return of searchMedications
Rank ==
    /\ sPc = "rank"
    /\ sRet' = SearchReturn(Trim(sQuery),
                            [threw |-> FALSE, value |-> RankResults(sResults)])
    /\ sPc' = "done"
    /\ UNCHANGED <<sQuery, sResults, sSeen, sLeft, sSub, sThrew, sRequests, rich>>
    /\ UNCHANGED nonSearchVars

SearchNext ==
    \/ \E q \in Queries : Search(q)
    \/ ExactLookup
    \/ ExactItem
    \/ ApproxLookup
    \/ ApproxItem
    \/ SpellLookup
    \/ SpellItem
    \/ RelatedLookup
    \/ RelatedGroup
    \/ RelatedConcept
    \/ Rank

SearchSpec == SearchInit /\ [][SearchNext]_vars

(***************************************************************************)
(* generateMedicationNote as a process: one action per stretch between     *)
(* awaits, for each of the calls in flight                                 *)
(***************************************************************************)
SearchIdle ==
    /\ sQuery = <<>>
    /\ sPc = "idle"
    /\ sResults = <<>>
    /\ sSeen = {}
    /\ sLeft = 0
    /\ sSub = 0
    /\ sThrew = {}
    /\ sRequests = {}
    /\ sRet = <<>>
    /\ rich = FALSE

NoteInit ==
    /\ SearchIdle
    /\ RxIdle
    /\ DxIdle
    /\ PairIdle
    /\ UiIdle
    /\ \E v \in InitialVaults :
         /\ vault = [p \in v.files |-> OldNote]
         /\ folderExists = v.folder
    /\ calls = [c \in CallIds |-> IdleCall]

EnrichInit ==
    /\ SearchIdle
    /\ RxIdle
    /\ DxIdle
    /\ PairIdle
    /\ UiIdle
    /\ vault = [p \in {} |-> OldNote]
    /\ folderExists = TRUE
    /\ calls = [c \in CallIds |-> IdleCall]

\* generateMedicationNote(medicationData, medicationsFolder, app, allowOverwrite)
\* up to `await getOpenFDADetails(medData.title)`
Begin(c, medicationData, allowOverwrite) ==
    /\ calls[c].pc = "idle"
    /\ LET overlap == \E d \in CallIds \ {c} : InFlight(calls[d])
       IN  calls' = [d \in CallIds |->
                        IF d = c
                        THEN [calls[c] EXCEPT
                                !.pc = "fda",
                                !.input = medicationData,
                                !.allowOverwrite = allowOverwrite,
                                !.medData = [medicationData EXCEPT
                                                !.title = FormatTitle(medicationData.title)],
                                !.overlapped = overlap]
                        ELSE IF InFlight(calls[d])
                        THEN [calls[d] EXCEPT !.overlapped = TRUE]
                        ELSE calls[d]]
    /\ UNCHANGED <<vault, folderExists>>
    /\ UNCHANGED nonNoteVars

\* the label request settles: merge, aliases, note text, then the folder check
\* and, if the folder is there, the lookup and the branch on it
Enrich(c, ans) ==
    /\ calls[c].pc = "fda"
    /\ LET fdaData == GetOpenFDADetails(ans)
           medData == MergeFDA(calls[c].medData, fdaData)
           call == [calls[c] EXCEPT !.medData = medData, !.fdaData = fdaData,
                                    !.enriched = fdaData.found,
                                    !.note = RenderNote(medData)]
       IN  calls' = [calls EXCEPT ![c] =
                        IF ~folderExists THEN [call EXCEPT !.pc = "mkdir"]
                        ELSE StorageBranch(call, vault)]
    /\ UNCHANGED <<vault, folderExists>>
    /\ UNCHANGED nonNoteVars

\* `await app.vault.createFolder(normalizedPath)` settles. If another call made
\* the folder meanwhile the vault may reject or not, depending on how far the
\* other request had got when this one was issued.
FolderCreated(c) ==
    /\ calls[c].pc = "mkdir"
    /\ \E rejects \in IF folderExists THEN BOOLEAN ELSE {FALSE} :
         IF rejects
         THEN calls' = [calls EXCEPT ![c] = Threw(calls[c], FolderExistsError)]
         ELSE calls' = [calls EXCEPT ![c] = StorageBranch(calls[c], vault)]
    /\ folderExists' = TRUE
    /\ UNCHANGED vault
    /\ UNCHANGED nonNoteVars

\* `await app.vault.modify(existingFile, fileContent)` settles; return filePath
ModifyDone(c) ==
    /\ calls[c].pc = "modify"
    /\ vault' = WriteFile(vault, calls[c].existingFile, calls[c].note)
    /\ calls' = [calls EXCEPT ![c] = Returned(calls[c], FilePath(calls[c].medData.title))]
    /\ UNCHANGED folderExists
    /\ UNCHANGED nonNoteVars

\* `await app.vault.create(filePath, fileContent)` settles. With the path free
\* the file is made. With the path taken meanwhile by another call, the vault
\* rejects ('File already exists.') and the catch block runs, or, if its check
\* ran before the other file appeared, it writes over that file.
CreateDone(c) ==
    /\ calls[c].pc = "create"
    /\ LET filePath == FilePath(calls[c].medData.title)
           existingFileRetry == FindExisting(vault, filePath)
       IN  \E rejects \in IF filePath \in DOMAIN vault THEN BOOLEAN ELSE {FALSE} :
             IF ~rejects
             THEN /\ vault' = WriteFile(vault, filePath, calls[c].note)
                  /\ calls' = [calls EXCEPT ![c] = Returned(calls[c], filePath)]
             ELSE /\ vault' = vault
                  /\ calls' = [calls EXCEPT ![c] =
                       IF ~calls[c].allowOverwrite THEN Threw(calls[c], NoteExists)
                       ELSE IF existingFileRetry # NoFile
                       THEN [calls[c] EXCEPT !.pc = "retry",
                                             !.existingFile = existingFileRetry]
                       ELSE Threw(calls[c], FileNotFound)]
    /\ UNCHANGED folderExists
    /\ UNCHANGED nonNoteVars

\* `await app.vault.modify(existingFileRetry, fileContent)` settles;
\* return existingFileRetry.path
RetryDone(c) ==
    /\ calls[c].pc = "retry"
    /\ vault' = WriteFile(vault, calls[c].existingFile, calls[c].note)
    /\ calls' = [calls EXCEPT ![c] = Returned(calls[c], calls[c].existingFile)]
    /\ UNCHANGED folderExists
    /\ UNCHANGED nonNoteVars

\* one call into an empty medications folder, from its arguments to the note
\* it stores
EnrichNext ==
    \/ calls[1].pc = "idle" /\ \E med \in RichCandidates : Begin(1, med, FALSE)
    \/ calls[1].pc = "fda" /\ \E ans \in RichFdaAnswers : Enrich(1, ans)
    \/ calls[1].pc = "create" /\ CreateDone(1)

EnrichSpec == EnrichInit /\ [][EnrichNext]_vars

\* two calls, interleaved at their awaits
NoteNext ==
    \/ \E c \in CallIds, med \in StoreCandidates, ow \in BOOLEAN : Begin(c, med, ow)
    \/ \E c \in CallIds, ans \in StoreFdaAnswers : Enrich(c, ans)
    \/ \E c \in CallIds : FolderCreated(c)
    \/ \E c \in CallIds : ModifyDone(c)
    \/ \E c \in CallIds : CreateDone(c)
    \/ \E c \in CallIds : RetryDone(c)

NoteSpec == NoteInit /\ [][NoteNext]_vars

(***************************************************************************)
(* createPrescriptionNote as a process                                     *)
(***************************************************************************)
RxInit ==
    /\ SearchIdle
    /\ NoteIdle
    /\ RxIdle
    /\ DxIdle
    /\ PairIdle
    /\ UiIdle

\* createPrescriptionNote(data): the dateFinished line of the note it writes
CreatePrescriptionNote(data) ==
    /\ rxNote.pc = "form"
    /\ rxNote' = [pc |-> "created", obtainedDate |-> data.obtainedDate,
              daysSupply |-> data.daysSupply, dateFinished |-> DateFinished(data)]
    /\ UNCHANGED nonRxVars

RxNext ==
    \E o \in ObtainedDates, n \in SupplyValues :
        CreatePrescriptionNote([obtainedDate |-> o, daysSupply |-> n])

RxSpec == RxInit /\ [][RxNext]_vars

(***************************************************************************)
(* createCleanDescription as a process: the extractor is run on the        *)
(* indication text of a label, and then once more on the sentence it       *)
(* returned                                                                *)
(***************************************************************************)
DxInit ==
    /\ SearchIdle
    /\ NoteIdle
    /\ RxIdle
    /\ DxIdle
    /\ PairIdle
    /\ UiIdle

\* description = createCleanDescription(result.indications_and_usage[0])
ExtractDescription(indication) ==
    /\ dx.pc = "idle"
    /\ dx' = [dx EXCEPT !.pc = "extracted", !.indication = indication,
                        !.description = createCleanDescription(indication)]
    /\ UNCHANGED nonDxVars

\* createCleanDescription(description), for a description that is not empty
ExtractAgain ==
    /\ dx.pc = "extracted"
    /\ dx.description # <<>>
    /\ dx' = [dx EXCEPT !.pc = "again", !.again = createCleanDescription(dx.description)]
    /\ UNCHANGED nonDxVars

DxNext ==
    \/ dx.pc = "idle" /\ \E indication \in Indications : ExtractDescription(indication)
    \/ ExtractAgain

DxSpec == DxInit /\ [][DxNext]_vars

(***************************************************************************)
(* Two calls at once: two searches, or two note generations up to the      *)
(* storing of the note, interleaved at their awaits                        *)
(***************************************************************************)
PairInit ==
    /\ SearchIdle
    /\ NoteIdle
    /\ RxIdle
    /\ DxIdle
    /\ PairIdle
    /\ UiIdle

NoNoteCall == \A c \in CallIds : calls[c].pc = "idle"

NoSearchCall == \A c \in CallIds : pair[c].pc = "idle"

\* searchMedications(q) is called while the other call may be in flight
PairSearch(c, q) ==
    /\ pair[c].pc = "idle"
    /\ \A d \in CallIds \ {c} : pair[d].query # q
    /\ pair' = [pair EXCEPT ![c] = StartOn(q)]
    /\ UNCHANGED nonPairVars

\* an await of the call c settles with the answer a
PairStep(c, a) ==
    /\ pair[c].pc \notin {"idle", "done"}
    /\ LET next == StepOn(pair[c], SeenBy(pair, c), a)
           overlap == \E d \in CallIds \ {c} : pair[d].pc \notin {"idle", "done"}
       IN  pair' = [pair EXCEPT ![c] = [next EXCEPT !.log = Append(@, a),
                                                    !.overlapped = @ \/ overlap]]
    /\ UNCHANGED nonPairVars

PairNext ==
    \/ NoNoteCall /\ \E c \in CallIds, q \in PairQueries : PairSearch(c, q)
    \/ \E c \in CallIds : \E a \in PairAnswers(pair[c].pc) : PairStep(c, a)
    \/ NoSearchCall /\ \E c \in CallIds, med \in StoreCandidates : Begin(c, med, FALSE)
    \/ \E c \in CallIds, ans \in StoreFdaAnswers : Enrich(c, ans)

PairSpec == PairInit /\ [][PairNext]_vars

(***************************************************************************)
(* Claims about the candidate search engine                                *)
(***************************************************************************)
SearchDone == sPc = "done"

Searched == SearchDone /\ Len(Trim(sQuery)) >= 2

\* the shape the claims give the synthetic candidate, built on the string `q`
IsSyntheticOn(list, q) ==
    /\ Len(list) = 1
    /\ list[1].title = q
    /\ list[1].name = q
    /\ list[1].brand_names = <<q>>
    /\ list[1].generic_names = <<>>
    /\ list[1].drug_class = <<>>
    /\ list[1].isFromAPI = FALSE

\* C1, as stated: a search on a query of trimmed length >= 2 returns a non-empty
\* list, and when the cascade found no candidate the list is the one synthetic
\* candidate built on the raw query string.
C1_SyntheticOnRawQuery ==
    Searched =>
        /\ Len(sRet) > 0
        /\ (sResults = <<>> => IsSyntheticOn(sRet, sQuery))

\* C1, amended: the same, with the synthetic candidate built on the trimmed query.
C1_SyntheticOnTrimmedQuery ==
    Searched =>
        /\ Len(sRet) > 0
        /\ (sResults = <<>> => IsSyntheticOn(sRet, Trim(sQuery)))

\* C1 witness: a query with surrounding white space, every list request failed,
\* no candidate found, and the call has returned.
C1_Witness ==
    /\ Searched
    /\ sQuery # Trim(sQuery)
    /\ sResults = <<>>
    /\ sThrew = {1, 2, 3}
    /\ Len(sRet) = 1

\* C2: a call with an input shorter than 2 characters returns the empty list and
\* sends no request, at any point of the call.
C2_ShortQueryNoRequest ==
    (sPc # "idle" /\ Len(sQuery) < 2) =>
        /\ sPc = "done"
        /\ sRet = <<>>
        /\ sRequests = {}

\* C2 witness: a call with a one-character query has returned.
C2_Witness == SearchDone /\ Len(sQuery) = 1 /\ sQuery # <<" ">>

\* C3, as stated: no two entries of the returned list have the same display
\* name, compared case-insensitively.
C3_NoDuplicateNames ==
    SearchDone =>
        \A i, j \in DOMAIN sRet :
            i < j => ToLower(sRet[i].name) # ToLower(sRet[j].name)

\* C4: the returned list has at most 8 entries, in non-increasing score order.
C4_RankedAndCapped ==
    SearchDone =>
        /\ Len(sRet) <= 8
        /\ \A i, j \in DOMAIN sRet :
               i < j => sRet[i].searchScore >= sRet[j].searchScore

\* C4 witness: more than 8 candidates were accumulated, out of score order, and
\* the call has returned.
C4_Witness ==
    /\ SearchDone
    /\ Len(sResults) > 8
    /\ \E i, j \in DOMAIN sResults :
           i < j /\ sResults[i].searchScore < sResults[j].searchScore
    /\ Len(sRet) = 8

\* C5, as stated: every returned candidate has a non-empty title and no empty
\* string among its generic_names and brand_names.
C5_NoEmptyNames ==
    SearchDone =>
        \A i \in DOMAIN sRet :
            /\ sRet[i].title # <<>>
            /\ \A k \in DOMAIN sRet[i].generic_names : sRet[i].generic_names[k] # <<>>
            /\ \A k \in DOMAIN sRet[i].brand_names : sRet[i].brand_names[k] # <<>>

\* every strategy that ran ended in its catch (strategy 4 runs only on 1..4 results)
EveryStrategyThrew ==
    /\ {1, 2, 3} \subseteq sThrew
    /\ (ShouldExpand(sResults) => 4 \in sThrew)

\* C6, as stated: when every strategy throws, the search returns one synthetic
\* candidate whose only brand name is the query and whose score is 25.
C6_FailureScores25 ==
    (Searched /\ EveryStrategyThrew) =>
        /\ Len(sRet) = 1
        /\ sRet[1].brand_names = <<Trim(sQuery)>>
        /\ sRet[1].isFromAPI = FALSE
        /\ sRet[1].searchScore = 25

(***************************************************************************)
(* Claims about note generation                                            *)
(***************************************************************************)
\* the call has its record merged and its note rendered
Rendered(c) == calls[c].pc \notin {"idle", "fda"}

FirstPos(arr, name) ==
    IF \E k \in DOMAIN arr : ToLower(arr[k]) = ToLower(name)
    THEN CHOOSE k \in DOMAIN arr :
             /\ ToLower(arr[k]) = ToLower(name)
             /\ \A m \in DOMAIN arr : ToLower(arr[m]) = ToLower(name) => k <= m
    ELSE 0

\* C8: the aliases of a rendered note hold no name equal to the title up to
\* case and no two names equal up to case; every alias is the first occurrence
\* of its name in generic_names followed by brand_names, aliases come in the
\* order of those first occurrences (so generic names before brand names), and
\* every non-empty name other than the title is among them.
C8_Aliases ==
    \A c \in CallIds :
        Rendered(c) =>
            LET note == calls[c].note
                a == note.aliases
                src == note.generic_names \o note.brand_names
            IN  /\ \A i \in DOMAIN a : ToLower(a[i]) # ToLower(note.title)
                /\ \A i, j \in DOMAIN a : i < j => ToLower(a[i]) # ToLower(a[j])
                /\ \A i \in DOMAIN a :
                       /\ a[i] # <<>>
                       /\ FirstPos(src, a[i]) > 0
                       /\ a[i] = src[FirstPos(src, a[i])]
                /\ \A i, j \in DOMAIN a : i < j => FirstPos(src, a[i]) < FirstPos(src, a[j])
                /\ \A k \in DOMAIN src :
                       (src[k] # <<>> /\ ToLower(src[k]) # ToLower(note.title))
                           => \E i \in DOMAIN a : ToLower(a[i]) = ToLower(src[k])

\* C8 witness: the README example. Title Ab, generics [Cd], brands
\* [Ab, AB, Ab Cd], no label record: the aliases are [Cd, Ab Cd].
C8_Witness ==
    /\ Rendered(1)
    /\ calls[1].note.title = Ab
    /\ calls[1].note.generic_names = <<Cd>>
    /\ calls[1].note.brand_names = <<Ab, ABup, AbCd>>
    /\ calls[1].note.aliases = <<Cd, AbCd>>

\* the documents the medications folder holds for a title: the files of the
\* folder whose path equals the title's path up to case
DocsFor(v, title) ==
    {p \in DOMAIN v : StartsWith(p, TargetDir) /\ ToLower(p) = ToLower(FilePath(title))}

C10_OneDocumentPerTitle ==
    \A p, q \in DOMAIN vault :
        (StartsWith(p, TargetDir) /\ StartsWith(q, TargetDir) /\ p # q)
            => ToLower(p) # ToLower(q)

\* C10 witness: two calls whose titles differ in letter case only ran
\* interleaved, one with and one without allowOverwrite, over a note the user
\* had named in lower case; both have ended and one wrote the note.
C10_Witness ==
    /\ calls[1].pc = "done" /\ calls[2].pc = "done"
    /\ calls[1].overlapped /\ calls[2].overlapped
    /\ calls[1].input.title # calls[2].input.title
    /\ ToLower(calls[1].input.title) = ToLower(calls[2].input.title)
    /\ calls[1].allowOverwrite /\ ~calls[2].allowOverwrite
    /\ calls[1].err = NoError
    /\ DOMAIN vault = {<<"M", "/", "a", "b", ".", "m", "d">>}
    /\ vault[<<"M", "/", "a", "b", ".", "m", "d">>] = calls[1].note

\* C11: a call whose label request found no record or failed still ends without
\* an error, and the note it stored carries the candidate's generic_names,
\* brand_names, drug_class and description exactly as they were passed in.
C11_NoEnrichmentKeepsCandidate ==
    \A c \in CallIds :
        (calls[c].pc = "done" /\ ~calls[c].enriched) =>
            LET filePath == FilePath(calls[c].medData.title)
            IN  /\ calls[c].err = NoError
                /\ filePath \in DOMAIN vault
                /\ vault[filePath].generic_names = calls[c].input.generic_names
                /\ vault[filePath].brand_names = calls[c].input.brand_names
                /\ vault[filePath].drug_class = calls[c].input.drug_class
                /\ vault[filePath].what_is_description = calls[c].input.what_is_description

\* C11 witness: a candidate with a generic name, brand names, a class and a
\* description went through a label request that brought nothing, and its note
\* is in the vault.
C11_Witness ==
    /\ calls[1].pc = "done"
    /\ ~calls[1].enriched
    /\ calls[1].input.generic_names = <<Cd>>
    /\ calls[1].input.brand_names = <<Ab, ABup>>
    /\ calls[1].input.drug_class = ClassJ
    /\ calls[1].input.what_is_description = TextE
    /\ DOMAIN vault = {FilePath(calls[1].medData.title)}

\* the label source returned a record without brand names, and the rendered
\* generic_names are non-empty
InferenceCase(c) ==
    /\ Rendered(c)
    /\ calls[c].fdaData.found
    /\ calls[c].fdaData.brand_names = <<>>
    /\ calls[c].note.generic_names # <<>>

\* C12, as stated: in that case, if the generic names do not hold the title up
\* to case the rendered brand_names hold the title itself, and if they do hold
\* it the brand_names do not hold the title.
C12_TitleInBrands ==
    \A c \in CallIds :
        InferenceCase(c) =>
            LET note == calls[c].note
            IN  IF ~IncludesCI(note.generic_names, note.title)
                THEN \E i \in DOMAIN note.brand_names : note.brand_names[i] = note.title
                ELSE ~IncludesCI(note.brand_names, note.title)

\* C12, amended: the same, where the brand_names hold the title up to case
\* (the title as written, unless the candidate's brand names already held it
\* in another case: the de-duplication then keeps the candidate's spelling).
C12_TitleInBrandsUpToCase ==
    \A c \in CallIds :
        InferenceCase(c) =>
            LET note == calls[c].note
            IN  IF ~IncludesCI(note.generic_names, note.title)
                THEN /\ IncludesCI(note.brand_names, note.title)
                     /\ (~IncludesCI(calls[c].input.brand_names, note.title)
                            => \E i \in DOMAIN note.brand_names :
                                   note.brand_names[i] = note.title)
                ELSE ~IncludesCI(note.brand_names, note.title)

\* C12 witness: scenario C. The candidate has no names of its own, the label
\* record has one generic name other than the title and no brand name, and the
\* rendered brand_names are the title alone.
C12_Witness ==
    /\ InferenceCase(1)
    /\ calls[1].input.generic_names = <<>>
    /\ calls[1].input.brand_names = <<>>
    /\ calls[1].note.title = Ab
    /\ calls[1].note.generic_names = <<Cd>>
    /\ calls[1].note.brand_names = <<Ab>>

(***************************************************************************)
(* Claims about the strategies of the search                               *)
(***************************************************************************)
IsPrefix(a, b) == Len(a) <= Len(b) /\ SubSeq(b, 1, Len(a)) = a

\* where control goes when the catch of strategy k has run
AfterCatch(k, results) ==
    CASE k = 1 -> "s2"
      [] k = 2 -> "s3"
      [] k = 3 -> IF Len(results) >= 1 /\ Len(results) <= 4 THEN "s4" ELSE "rank"
      [] OTHER -> "rank"

\* C17: the step in which strategy k fails leaves the accumulated candidates as
\* they are, returns nothing to the caller and hands control to what follows
\* strategy k (the next strategy, for strategy 3 the test that guards strategy 4,
\* for strategy 4 the final sort); no step of the search ever drops or reorders
\* an accumulated candidate; and the step that ends a search returns a list.
C17_FailureIsAbsorbed ==
    [][/\ \A k \in 1..4 :
            (k \notin sThrew /\ k \in sThrew') =>
                /\ sResults' = sResults
                /\ sRet' = sRet
                /\ sPc' = AfterCatch(k, sResults)
       /\ IsPrefix(sResults, sResults')
       /\ (sPc = "rank" /\ sPc' = "done") =>
              /\ Len(sRet') > 0
              /\ (sResults # <<>> =>
                     \A i \in DOMAIN sRet' : \E j \in DOMAIN sResults : sRet'[i] = sResults[j])
      ]_vars

\* C17 witness: strategy 1 found a candidate, strategies 2, 3 and 4 each
\* failed, and the search returned what strategy 1 had found.
C17_Witness ==
    /\ SearchDone
    /\ sThrew = {2, 3, 4}
    /\ Len(sResults) >= 1
    /\ sRet = sResults

\* the strategy that pushes candidates with this score: 100 the exact lookup,
\* the fuzzy score (90 when absent) the approximate search, 85 the spelling
\* suggestions, 75 the related concepts; 0 for the synthetic entries
StrategyOfScore(score) ==
    CASE score = 100 -> 1
      [] score \in {90, 95} -> 2
      [] score = 85 -> 3
      [] score = 75 -> 4
      [] OTHER -> 0

\* C18, as stated: no candidate of the returned list was added by a strategy
\* that failed.
C18_FailedStrategyAddsNothing ==
    SearchDone =>
        \A i \in DOMAIN sRet : StrategyOfScore(sRet[i].searchScore) \notin sThrew

\* number of accumulated candidates that strategies 1-3 pushed
BaseCount == Cardinality({i \in DOMAIN sResults : sResults[i].searchScore # 75})

\* C19: the related-concepts request has been sent only if strategies 1-3
\* pushed between 1 and 4 candidates, and once they have pushed none or 5 or
\* more at the end of strategy 3, no request is sent and no candidate is added.
C19_ExpansionOnlyOnFewResults ==
    /\ "relatedConcepts" \in sRequests => (BaseCount >= 1 /\ BaseCount <= 4)
    /\ (sPc \in {"rank", "done"} /\ (BaseCount = 0 \/ BaseCount >= 5)) =>
           /\ "relatedConcepts" \notin sRequests
           /\ BaseCount = Len(sResults)

\* C19 witness: strategies 1-3 pushed 1 to 4 candidates, the request was sent
\* and a related concept was added; the search has returned.
C19_Witness ==
    /\ SearchDone
    /\ "relatedConcepts" \in sRequests
    /\ BaseCount < Len(sResults)

\* C20, as stated: from the related-concepts request on, every candidate the
\* expansion adds has score 75 and the accumulated candidates never number
\* more than 8.
C20_ExpansionStopsAtEight ==
    "relatedConcepts" \in sRequests =>
        /\ Len(sResults) <= 8
        /\ \A i \in DOMAIN sResults : i > BaseCount => sResults[i].searchScore = 75

(***************************************************************************)
(* Claims about prescription notes                                         *)
(***************************************************************************)
\* the number of the day `date` in the proleptic Gregorian calendar
DayNumber(date) ==
    LET y == date.y - 1
        leap == date.y % 4 = 0 /\ (date.y % 100 # 0 \/ date.y % 400 = 0)
        before == <<0, 31, 59, 90, 120, 151, 181, 212, 243, 273, 304, 334>>
    IN  365 * y + (y \div 4) - (y \div 100) + (y \div 400)
        + before[date.m] + (IF date.m > 2 /\ leap THEN 1 ELSE 0) + date.d

\* a YYYY-MM-DD text of a day that exists
IsDateText(s) ==
    /\ Len(s) = 10
    /\ s[5] = "-" /\ s[8] = "-"
    /\ \A i \in {1, 2, 3, 4, 6, 7, 9, 10} :
           s[i] \in {"0", "1", "2", "3", "4", "5", "6", "7", "8", "9"}
    /\ LET date == ParseDate(s)
           leap == date.y % 4 = 0 /\ (date.y % 100 # 0 \/ date.y % 400 = 0)
       IN  /\ date.m >= 1 /\ date.m <= 12
           /\ date.d >= 1
           /\ date.d <= (CASE date.m = 2 -> (IF leap THEN 29 ELSE 28)
                           [] date.m \in {4, 6, 9, 11} -> 30
                           [] OTHER -> 31)

\* C16: in a created prescription note, dateFinished is the YYYY-MM-DD text of
\* the day that lies daysSupply days after the obtained date when an obtained
\* date is set and daysSupply > 0, and is empty otherwise.
C16_DateFinished ==
    rxNote.pc = "created" =>
        IF rxNote.obtainedDate # <<>> /\ rxNote.daysSupply > 0
        THEN /\ IsDateText(rxNote.dateFinished)
             /\ DayNumber(ParseDate(rxNote.dateFinished))
                    = DayNumber(ParseDate(rxNote.obtainedDate)) + rxNote.daysSupply
        ELSE rxNote.dateFinished = <<>>

\* C16 witness: the README example, 2025-08-01 plus 30 days gives 2025-08-31.
C16_Witness ==
    /\ rxNote.pc = "created"
    /\ rxNote.obtainedDate = <<"2", "0", "2", "5", "-", "0", "8", "-", "0", "1">>
    /\ rxNote.daysSupply = 30
    /\ rxNote.dateFinished = <<"2", "0", "2", "5", "-", "0", "8", "-", "3", "1">>

(***************************************************************************)
(* Claims about the Description Extractor                                  *)
(***************************************************************************)
\* C14: the Description Extractor is idempotent on its own output: run again
\* on a non-empty sentence it produced, it returns that sentence or the empty
\* string.
C14_Idempotent ==
    dx.pc = "again" => dx.again \in {dx.description, <<>>}

\* the text up to the first period, or all of it
UpToPeriod(s) ==
    LET periods == {i \in 1..Len(s) : s[i] = "."}
    IN  IF periods = {} THEN s ELSE SubSeq(s, 1, Least(periods) - 1)

\* the conditions after the colon of 'treatment of:', phrase-substituted
ListedConditions(afterColon) == CleanConditions(Trim(UpToPeriod(afterColon)))

C21_OverwriteOnlyIfNonEmpty ==
    \A c \in CallIds :
        calls[c].pc \notin {"idle", "fda"} =>
            LET fda == calls[c].fdaData
                old == calls[c].input
                new == calls[c].medData
            IN  /\ new.drug_class =
                      IF fda.found /\ Len(fda.drug_class) > 0
                      THEN fda.drug_class ELSE old.drug_class
                /\ new.what_is_description =
                      IF fda.found /\ fda.what_is_description # <<>>
                      THEN fda.what_is_description ELSE old.what_is_description

\* a label record without class and description met a candidate that has both
C21_Witness ==
    /\ calls[1].pc \notin {"idle", "fda"}
    /\ calls[1].fdaData.found
    /\ calls[1].fdaData.drug_class = <<>>
    /\ calls[1].fdaData.what_is_description = <<>>
    /\ calls[1].input.drug_class = ClassJ
    /\ calls[1].medData.drug_class = ClassJ
    /\ calls[1].medData.what_is_description = TextE

(***************************************************************************)
(* Claims about the order of the extractor's strategies                    *)
(***************************************************************************)
\* strategy k matches the cleaned text and passes its own test
StrategySucceeds(k, clean) ==
    CASE k = 1 -> Strategy1Applies(clean)
      [] k = 2 -> Strategy2Applies(clean)
      [] k = 3 -> Strategy3Applies(clean)
      [] k = 4 -> \E i \in SentenceStarts(clean) : Meaningful(SentenceAt(clean, i))
      [] k = 5 -> \E word \in AcneWords : HasTextCI(clean, word)

\* what strategy k returns when it succeeds
StrategyOutput(k, clean) ==
    CASE k = 1 -> UsedToTreat(Strategy1Conditions(clean))
      [] k = 2 -> UsedToTreat(Trim(IndicatedCapture(clean)))
      [] k = 3 -> UsedToTreat(DropIndicated(Trim(MedNameCapture(clean))))
      [] k = 4 -> SentenceCase(Trim(SentenceAt(clean, Least(MeaningfulStarts(clean)))))
      [] k = 5 -> AcneFallback

\* C22: the Description Extractor tries its five strategies in the fixed
\* order 1..5 and returns the output of the first one that matches and passes
\* its own length check; a strategy whose pattern matches but whose length
\* check fails falls through to the next strategy, and if none succeeds the
\* result is the empty string.
C22_FirstStrategyThatSucceeds ==
    dx.pc # "idle" =>
        LET clean == CleanText(dx.indication)
            succeed == {k \in 1..5 : StrategySucceeds(k, clean)}
        IN  /\ succeed = {} => dx.description = <<>>
            /\ \A k \in succeed :
                  (\A j \in 1..(k - 1) : j \notin succeed) =>
                      dx.description = StrategyOutput(k, clean)

\* 'Abilify topical gel treatment of: acne': the pattern of strategy 1
\* matches, 'acne' is too short for it, and strategy 4 returns the sentence
C22_Witness ==
    /\ dx.pc = "extracted"
    /\ dx.indication = << "A", "b", "i", "l", "i", "f", "y", " ", "t", "o", "p", "i", "c",
                          "a", "l", " ", "g", "e", "l", " ", "t", "r", "e", "a", "t", "m",
                          "e", "n", "t", " ", "o", "f", ":", " ", "a", "c", "n", "e" >>
    /\ TreatmentStarts(CleanText(dx.indication)) # {}
    /\ ~StrategySucceeds(1, CleanText(dx.indication))
    /\ dx.description = << "A", "b", "i", "l", "i", "f", "y", " ", "t", "o", "p", "i", "c",
                           "a", "l", " ", "g", "e", "l", " ", "t", "r", "e", "a", "t", "m",
                           "e", "n", "t", " ", "o", "f", ":", " ", "a", "c", "n", "e", "." >>

(***************************************************************************)
(* MedicationSelectionModal: the input listener of the search box and the  *)
(* searches it starts, each of which displays its results when it settles  *)
(***************************************************************************)
MaxInputs == 3

\* what the user may leave in the search box
BoxValues ==
    { <<>>, << "a" >>, << "a", "s" >>, << " ", "a", "s", " " >>, << "a", "s", "p" >>, << "i", "b" >> }

\* what searchRxNorm may settle with for a search term: it throws, it finds
\* nothing, or it finds a concept of that name
PickerOutcomes(searchTerm) ==
    { [threw |-> TRUE, value |-> <<>>],
      [threw |-> FALSE, value |-> <<>>],
      [threw |-> FALSE,
       value |-> <<createMedicationResult(
                      GetRxNormDetails(PropsAnswer("ok", searchTerm), RelatedAnswer("ok", <<>>)),
                      "rx", 100, TRUE)>>] }

\* displayResults(container): the container is emptied and filled again
displayResults(searchResults) ==
    IF Len(searchResults) = 0
    THEN [message |-> "No medications found. Try a different search term.", results |-> <<>>]
    ELSE [message |-> "", results |-> searchResults]

PickerInit ==
    /\ SearchIdle
    /\ NoteIdle
    /\ RxIdle
    /\ DxIdle
    /\ PairIdle
    /\ UiIdle

\* the 'input' listener, up to its await: the search is started and the
\* loading message shown, or the hint for a query under two characters
PickerInput(value) ==
    /\ picker.inputs < MaxInputs
    /\ value # picker.box
    /\ LET query == Trim(value)
       IN  IF Len(query) >= 2
           THEN picker' = [picker EXCEPT
                              !.box = value,
                              !.inputs = @ + 1,
                              !.pending = @ \cup {[id |-> picker.inputs + 1, query |-> query]},
                              !.shown = [message |-> "Searching RxNorm database...",
                                         results |-> <<>>]]
           ELSE picker' = [picker EXCEPT
                              !.box = value,
                              !.inputs = @ + 1,
                              !.shown = [message |-> "Type at least 2 characters to search...",
                                         results |-> <<>>]]
    /\ UNCHANGED <<coreVars, conv, rxModal, lists, labelRun>>

\* the listener after its await: searchMedications(query) has settled, its
\* value is stored in this.searchResults and displayed (searchMedications
\* absorbs every failure, so the catch of the listener is never entered)
PickerSearchReturns(call, rx) ==
    /\ call \in picker.pending
    /\ LET results == SearchReturn(Trim(call.query), rx)
       IN  picker' = [picker EXCEPT
                         !.pending = @ \ {call},
                         !.searchResults = results,
                         !.shown = displayResults(results)]
    /\ UNCHANGED <<coreVars, conv, rxModal, lists, labelRun>>

PickerNext ==
    \/ \E value \in BoxValues : PickerInput(value)
    \/ \E call \in picker.pending : \E rx \in PickerOutcomes(call.query) :
          PickerSearchReturns(call, rx)

PickerSpec == PickerInit /\ [][PickerNext]_vars

(***************************************************************************)
(* Claims about the medication selection dialog                            *)
(***************************************************************************)
\* what a search for the query may display
ShownFor(query) ==
    {displayResults(SearchReturn(query, rx)) : rx \in PickerOutcomes(query)}

\* C23: once no search is in flight, the results shown correspond to the
\* latest content of the search box: the results of an older query never
\* replace what was displayed for the latest input (a hint when the text has
\* fewer than 2 characters), in whatever order the searches complete.
C23_ShownIsLatest ==
    (picker.inputs > 0 /\ picker.pending = {}) =>
        LET query == Trim(picker.box)
        IN  IF Len(query) >= 2
            THEN picker.shown \in ShownFor(query)
            ELSE picker.shown = [message |-> "Type at least 2 characters to search...",
                                 results |-> <<>>]

(***************************************************************************)
(* Claims about the path generateMedicationNote returns                    *)
(***************************************************************************)
\* the step in which the call c returns to its caller
ReturnsNow(c) == calls[c].pc # "done" /\ calls'[c].pc = "done" /\ calls'[c].err = NoError

\* C25: whenever generateMedicationNote returns successfully, the returned
\* path is the path of a file that exists in the vault and holds the
\* generated content, including when the existing note was found only by a
\* case-insensitive match and overwritten in place.
C25_ReturnedPathHoldsNote ==
    [][\A c \in CallIds :
          ReturnsNow(c) =>
              /\ calls'[c].ret \in DOMAIN vault'
              /\ vault'[calls'[c].ret] = calls'[c].note]_vars

\* the same for every return but the one after an overwrite of a file whose
\* path differs from the path built from the title
C25_ExceptAfterInexactMatch ==
    [][\A c \in CallIds :
          (ReturnsNow(c) /\ ~(calls[c].pc = "modify"
                              /\ calls[c].existingFile # FilePath(calls[c].medData.title))) =>
              /\ calls'[c].ret \in DOMAIN vault'
              /\ vault'[calls'[c].ret] = calls'[c].note]_vars

(***************************************************************************)
(* convertCurrentMedicationNote: the active file, the name taken from it,  *)
(* the search, the note generation and the removal of the old file         *)
(***************************************************************************)
\* TFile.name, TFile.extension and TFile.basename of a path
FileName(path) ==
    LET slashes == {i \in 1..Len(path) : path[i] = "/"}
    IN  IF slashes = {} THEN path ELSE From(path, Greatest(slashes) + 1)

Extension(path) ==
    LET name == FileName(path)
        dots == {i \in 2..Len(name) : name[i] = "."}
    IN  IF dots = {} THEN <<>> ELSE From(name, Greatest(dots) + 1)

Basename(path) ==
    LET name == FileName(path)
        dots == {i \in 2..Len(name) : name[i] = "."}
    IN  IF dots = {} THEN name ELSE SubSeq(name, 1, Greatest(dots) - 1)

\* where a match of \s*-\s* that starts at i ends (the position after it),
\* 0 when there is none
AfterDash(s, i) ==
    LET d == RunEnd(s, i, {" "})
    IN  IF d <= Len(s) /\ s[d] = "-" THEN RunEnd(s, d + 1, {" "}) ELSE 0

AllDigits(s, a, b) == b <= Len(s) /\ \A i \in a..b : s[i] \in Digits

\* replace(/^\d{4}-\d{2}-\d{2}\s*-\s*/, '')
DropIsoDate(s) ==
    IF /\ AllDigits(s, 1, 4) /\ At(s, 5, <<"-">>) /\ AllDigits(s, 6, 7)
       /\ At(s, 8, <<"-">>) /\ AllDigits(s, 9, 10) /\ AfterDash(s, 11) # 0
    THEN From(s, AfterDash(s, 11)) ELSE s

\* replace(/^\d{8}\s*-\s*/, '')
DropCompactDate(s) ==
    IF AllDigits(s, 1, 8) /\ AfterDash(s, 9) # 0 THEN From(s, AfterDash(s, 9)) ELSE s

\* replace(/^Rx\d+\s*-\s*/, '')
DropRxNumber(s) ==
    IF /\ At(s, 1, <<"R", "x">>) /\ AllDigits(s, 3, 3)
       /\ AfterDash(s, RunEnd(s, 3, Digits)) # 0
    THEN From(s, AfterDash(s, RunEnd(s, 3, Digits))) ELSE s

DoseUnits == { << "m", "g" >>, << "m", "c", "g" >>, << "g" >>, << "m", "l" >>, << "u", "n", "i", "t" >>, << "u", "n", "i", "t", "s" >> }

\* /\s+\d+(\.\d+)?\s*(mg|mcg|g|ml|units?)(\s+.*)?$/i matches s from i on
DosageAt(s, i) ==
    /\ s[i] = " "
    /\ LET d == RunEnd(s, i, {" "})
           e == RunEnd(s, d, Digits)
           f == IF At(s, e, <<".">>) /\ RunEnd(s, e + 1, Digits) > e + 1
                THEN RunEnd(s, e + 1, Digits) ELSE e
           u == RunEnd(s, f, {" "})
       IN  /\ e > d
           /\ \E unit \in DoseUnits :
                 /\ AtCI(s, u, unit)
                 /\ (u + Len(unit) > Len(s) \/ s[u + Len(unit)] = " ")

\* replace of the dosage pattern: the text from the leftmost match on goes
DropDosage(s) ==
    LET starts == {i \in 1..Len(s) : DosageAt(s, i)}
    IN  IF starts = {} THEN s ELSE SubSeq(s, 1, Least(starts) - 1)

\* the text before a final \s*-\s* of s, or s itself without one
BeforeFinalDash(s) ==
    LET a == TrimRight(s)
    IN  IF a # <<>> /\ a[Len(a)] = "-" THEN TrimRight(SubSeq(a, 1, Len(a) - 1)) ELSE s

\* replace(/\s*-\s*medication$/i, '')
DropMedicationSuffix(s) ==
    LET n == Len(s)
    IN  IF AtCI(s, n - 9, << "m", "e", "d", "i", "c", "a", "t", "i", "o", "n" >>)
           /\ BeforeFinalDash(SubSeq(s, 1, n - 10)) # SubSeq(s, 1, n - 10)
        THEN BeforeFinalDash(SubSeq(s, 1, n - 10)) ELSE s

\* replace(/\s*note$/i, '')
DropNoteSuffix(s) ==
    LET n == Len(s)
    IN  IF AtCI(s, n - 3, << "n", "o", "t", "e" >>) THEN TrimRight(SubSeq(s, 1, n - 4)) ELSE s

\* replace(/^\s*-\s*/, '')
DropLeadingDash(s) == IF AfterDash(s, 1) # 0 THEN From(s, AfterDash(s, 1)) ELSE s

\* extractMedicationName(file), given file.basename; null reads as <<>>
extractMedicationName(basename) ==
    Trim(BeforeFinalDash(DropLeadingDash(DropNoteSuffix(DropMedicationSuffix(
        DropDosage(DropRxNumber(DropCompactDate(DropIsoDate(basename)))))))))

\* the file the workspace reports as active; <<>> when there is none
ActiveFiles ==
    { <<>>,
      << "M", "/", "a", "b", ".", "m", "d" >>,
      << "M", "/", "A", "b", ".", "m", "d" >>,
      << "M", "/", "R", "x", "1", " ", "-", " ", "a", "b", " ", "5", "m",
         "g", ".", "m", "d" >>,
      << "M", "/", "n", "o", "t", "e", ".", "m", "d" >>,
      << "M", "/", "a", ".", "m", "d" >>,
      << "M", "/", "a", "b", ".", "t", "x", "t" >>,
      << "N", "/", "a", "b", ".", "m", "d" >>,
      << "a", "b", ".", "m", "d" >> }

\* the notes the medications folder may hold beside the active file
OtherNotes ==
    { {}, {<< "M", "/", "A", "b", ".", "m", "d" >>}, {<< "M", "/", "a", "b", ".", "m", "d" >>} }

\* the tests convertCurrentMedicationNote makes before it touches anything
InMedicationsFolder(path) == StartsWith(NormalizePath(path), TargetDir \o <<"/">>)

\* the same without the test of the extension
ConvertibleAnyExtension(path) ==
    /\ path # NoFile
    /\ InMedicationsFolder(path)
    /\ extractMedicationName(Basename(path)) # <<>>

Convertible(path) ==
    /\ path # NoFile
    /\ InMedicationsFolder(path)
    /\ Extension(path) = << "m", "d" >>
    /\ extractMedicationName(Basename(path)) # <<>>

\* the notice of each early return
RefusalNotice(path) ==
    IF path = NoFile THEN "No active file to convert"
    ELSE IF ~InMedicationsFolder(path) THEN "Current file is not in the medications folder"
    ELSE IF Extension(path) # << "m", "d" >> THEN "Current file is not a markdown file"
    ELSE "Could not extract medication name from current file"

\* medicationData = searchResults[0], as generateMedicationNote reads it
AsMedicationData(result) ==
    Candidate(result.title, result.generic_names, result.brand_names, result.drug_class, <<>>)

\* newFile && newFile.path !== activeFile.path, without the comparison
ShouldDeleteAnyPath(v, filePath, activePath) == FindExistingExact(v, filePath) # NoFile

\* newFile && newFile.path !== activeFile.path
ShouldDelete(v, filePath, activePath) ==
    FindExistingExact(v, filePath) # NoFile /\ FindExistingExact(v, filePath) # activePath

\* a rejection of the vault for a reason of the file system
IoError == "EIO"

ConvInit ==
    /\ SearchIdle
    /\ RxIdle
    /\ DxIdle
    /\ PairIdle
    /\ PickerIdle
    /\ RxModalIdle
    /\ ListsIdle
    /\ LabelIdle
    /\ calls = [c \in CallIds |-> IdleCall]
    /\ \E active \in ActiveFiles, others \in OtherNotes :
         LET files == (IF active = NoFile THEN {} ELSE {active}) \cup others
         IN  /\ vault = [p \in files |-> OldNote]
             /\ folderExists = \E p \in files : InMedicationsFolder(p)
             /\ conv = [ConvForm EXCEPT !.active = active, !.before = files]

\* convertCurrentMedicationNote up to `await searchMedications(medicationName)`,
\* or to one of its early returns
ConvStart ==
    /\ conv.pc = "idle"
    /\ IF Convertible(conv.active)
       THEN conv' = [conv EXCEPT !.pc = "search",
                                 !.medicationName = extractMedicationName(Basename(conv.active)),
                                 !.searched = TRUE]
       ELSE conv' = [conv EXCEPT !.pc = "done", !.notice = RefusalNotice(conv.active)]
    /\ UNCHANGED <<searchVars, noteVars, rxVars, dxVars, pairVars, picker, rxModal, lists, labelRun>>

\* searchMedications settles: an empty list ends the command, otherwise
\* generateMedicationNote is called with the first result
ConvSearched(rx) ==
    /\ conv.pc = "search"
    /\ LET searchTerm == Trim(conv.medicationName)
           searchResults == IF TooShort(searchTerm) THEN <<>> ELSE SearchReturn(searchTerm, rx)
       IN  IF Len(searchResults) = 0
           THEN conv' = [conv EXCEPT !.pc = "done", !.notice = "No medication data found"]
           ELSE conv' = [conv EXCEPT !.pc = "generate", !.searchResults = searchResults]
    /\ UNCHANGED <<searchVars, noteVars, rxVars, dxVars, pairVars, picker, rxModal, lists, labelRun>>

\* an await of the vault inside generateMedicationNote rejects; the catch
\* block rethrows
StorageFails(c) ==
    /\ calls[c].pc \in {"modify", "create"}
    /\ calls' = [calls EXCEPT ![c] = Threw(calls[c], IoError)]
    /\ UNCHANGED <<vault, folderExists>>
    /\ UNCHANGED nonNoteVars

\* generateMedicationNote has settled: the catch block, the notice, or the
\* removal of the old file
ConvGenerated ==
    /\ conv.pc = "generate"
    /\ calls[1].pc = "done"
    /\ conv' = IF calls[1].err # NoError
               THEN [conv EXCEPT !.pc = "done", !.notice = "Error converting medication note"]
               ELSE IF ShouldDelete(vault, calls[1].ret, conv.active)
               THEN [conv EXCEPT !.pc = "delete"]
               ELSE [conv EXCEPT !.pc = "done", !.notice = "Medication note converted"]
    /\ UNCHANGED <<searchVars, noteVars, rxVars, dxVars, pairVars, picker, rxModal, lists, labelRun>>

\* `await this.app.vault.delete(activeFile)` settles
ConvDeleted(rejected) ==
    /\ conv.pc = "delete"
    /\ IF rejected
       THEN /\ vault' = vault
            /\ conv' = [conv EXCEPT !.pc = "done", !.notice = "Error converting medication note"]
       ELSE /\ vault' = [p \in DOMAIN vault \ {conv.active} |-> vault[p]]
            /\ conv' = [conv EXCEPT !.pc = "done", !.notice = "Medication note converted"]
    /\ UNCHANGED <<searchVars, folderExists, calls, rxVars, dxVars, pairVars, picker, rxModal, lists, labelRun>>

ConvNext ==
    \/ ConvStart
    \/ conv.pc = "search" /\ \E rx \in PickerOutcomes(Trim(conv.medicationName)) : ConvSearched(rx)
    \/ conv.pc = "generate" /\ Begin(1, AsMedicationData(conv.searchResults[1]), TRUE)
    \/ conv.pc = "generate" /\ \E ans \in StoreFdaAnswers : Enrich(1, ans)
    \/ conv.pc = "generate" /\ ModifyDone(1)
    \/ conv.pc = "generate" /\ CreateDone(1)
    \/ conv.pc = "generate" /\ StorageFails(1)
    \/ ConvGenerated
    \/ \E rejected \in BOOLEAN : ConvDeleted(rejected)

ConvSpec == ConvInit /\ [][ConvNext]_vars

(***************************************************************************)
(* Claims about convertCurrentMedicationNote                               *)
(***************************************************************************)
\* the vault v holds the note the command generated
HoldsGenerated(v, call) ==
    call.pc \notin {"idle", "fda"} /\ \E p \in DOMAIN v : v[p] = call.note

\* C24: convertCurrentMedicationNote deletes the active file only after the
\* generated note has been written and only when a file exists at the
\* returned path whose path differs from the active file's; in every
\* outcome, including errors, the vault still contains the original file or
\* the generated note.
C24_DeleteOnlyAfterWrite ==
    [][/\ (DOMAIN vault \ DOMAIN vault' # {}) =>
              /\ DOMAIN vault \ DOMAIN vault' = {conv.active}
              /\ calls[1].pc = "done"
              /\ calls[1].err = NoError
              /\ calls[1].ret \in DOMAIN vault
              /\ calls[1].ret # conv.active
              /\ vault[calls[1].ret] = calls[1].note
       /\ conv'.active # NoFile =>
              \/ conv'.active \in DOMAIN vault'
              \/ HoldsGenerated(vault', calls'[1])]_vars

\* 'M/Rx1 - ab 5mg.md' has been converted: the note 'M/Ab.md' holds the
\* generated content and the old file is gone
C24_Witness ==
    /\ conv.pc = "done"
    /\ conv.active = << "M", "/", "R", "x", "1", " ", "-", " ", "a", "b", " ", "5", "m",
                        "g", ".", "m", "d" >>
    /\ conv.active \notin DOMAIN vault
    /\ calls[1].ret = << "M", "/", "A", "b", ".", "m", "d" >>
    /\ calls[1].ret \in DOMAIN vault
    /\ vault[calls[1].ret] = calls[1].note

\* the command has searched, or written to the vault, or called the note
\* generation
ConvActed ==
    \/ conv.searched
    \/ DOMAIN vault # conv.before
    \/ \E p \in DOMAIN vault : vault[p] # OldNote
    \/ calls[1].pc # "idle"

\* C27: convertCurrentMedicationNote makes no change to the vault and issues
\* no search unless there is an active file that is a markdown file under the
\* configured medications folder and from whose name a non-empty medication
\* name can be extracted.
C27_NothingUnlessConvertible ==
    ConvActed =>
        /\ conv.active # NoFile
        /\ StartsWith(NormalizePath(conv.active), NormalizePath(MedicationsFolder) \o <<"/">>)
        /\ Extension(conv.active) = << "m", "d" >>
        /\ Len(extractMedicationName(Basename(conv.active))) > 0

\* the command has ended on 'M/note.md', whose name leaves nothing once the
\* suffix 'note' is removed: nothing searched, nothing written
C27_Witness ==
    /\ conv.pc = "done"
    /\ conv.active = << "M", "/", "n", "o", "t", "e", ".", "m", "d" >>
    /\ conv.notice = "Could not extract medication name from current file"
    /\ ~ConvActed

(***************************************************************************)
(* createPrescriptionNote with a drug-label file: renameDrugLabelFile,     *)
(* then the creation of the note                                           *)
(***************************************************************************)
\* String.prototype.replace(/[...]/g, ''): every character of Class goes
Without(s, Class) == SelectSeq(s, LAMBDA c : c \notin Class)

LinkBrackets == {"[", "]"}

IllegalChars == {"<", ">", ":", "\"", "/", "\\", "|", "?", "*"}

\* TFile.parent.path of a path; '' for a file in the root
ParentPath(path) ==
    LET slashes == {i \in 1..Len(path) : path[i] = "/"}
    IN  IF slashes = {} THEN <<>> ELSE SubSeq(path, 1, Greatest(slashes) - 1)

\* getDateBasedPath(dateStr, 'Prescriptions', 'YYYY/YYYY-MM'): moment formats
\* every placeholder of a date it cannot read as 'Invalid date'
getDateBasedPath(dateStr) ==
    LET year == IF dateStr = <<>> THEN << "I", "n", "v", "a", "l", "i", "d", " ", "d", "a", "t", "e" >>
                ELSE SubSeq(FormatDate(ParseDate(dateStr)), 1, 4)
        month == IF dateStr = <<>> THEN << "I", "n", "v", "a", "l", "i", "d", " ", "d", "a", "t", "e" >>
                 ELSE SubSeq(FormatDate(ParseDate(dateStr)), 6, 7)
    IN  NormalizePath(<< "P", "r", "e", "s", "c", "r", "i", "p", "t", "i", "o", "n", "s" >> \o <<"/">> \o year \o <<"/">> \o year \o <<"-">> \o month)

\* the file name renameDrugLabelFile builds:
\* YYYYMMDD - <pharmacy> -- <medication> <dose>.<extension>
NewLabelName(data, extension) ==
    Without(data.fillDate, {"-"}) \o << " ", "-", " " >>
        \o Without(Trim(Without(data.pharmacy, LinkBrackets)), IllegalChars) \o << " ", "-", "-", " " >>
        \o Without(Trim(Without(data.medicationName, LinkBrackets)), IllegalChars) \o <<" ">>
        \o Without(Trim(Without(data.dosage, LinkBrackets)), IllegalChars)
        \o <<".">> \o extension

NewLabelPath(data) ==
    LET newFileName == NewLabelName(data, Extension(data.drugLabel))
        originalDir == ParentPath(data.drugLabel)
    IN  IF originalDir # <<>> THEN originalDir \o <<"/">> \o newFileName ELSE newFileName

\* the path of the note: <date folder>/YYYYMMDD - Rx<number> -- <medication> <dose>.md
NotePath(data) ==
    getDateBasedPath(data.fillDate) \o <<"/">>
        \o Without(data.fillDate, {"-"}) \o << " ", "-", " ", "R", "x" >>
        \o (IF data.prescriptionNumber # <<>> THEN data.prescriptionNumber ELSE << "U", "N", "K", "N", "O", "W", "N" >>)
        \o << " ", "-", "-", " " >>
        \o Without(data.medicationName, IllegalChars \cup LinkBrackets) \o <<" ">>
        \o Without(data.dosage, IllegalChars \cup LinkBrackets) \o << ".", "m", "d" >>

\* the drugLabel line of the frontmatter
DrugLabelLine(drugLabelFileName) ==
    IF drugLabelFileName # <<>>
    THEN <<"\"", "[", "[">> \o drugLabelFileName \o <<"]", "]", "\"">>
    ELSE <<"\"", "\"">>

\* the tests of renameDrugLabelFile that end it with '' before the rename
\* is requested, without the test for a file at the new path
RenameRefusedTargetUnchecked(v, data) ==
    \/ data.drugLabel \notin DOMAIN v
    \/ data.fillDate = <<>> \/ data.pharmacy = <<>>
    \/ data.medicationName = <<>> \/ data.dosage = <<>>

\* the tests of renameDrugLabelFile that end it with '' before the rename
\* is requested
RenameRefused(v, data) ==
    \/ data.drugLabel \notin DOMAIN v
    \/ data.fillDate = <<>> \/ data.pharmacy = <<>>
    \/ data.medicationName = <<>> \/ data.dosage = <<>>
    \/ NewLabelPath(data) \in DOMAIN v

\* vault.rename taking effect: the content moves to the new path
MoveFile(v, from, to) ==
    [p \in (DOMAIN v \ {from}) \cup {to} |-> IF p = to THEN v[from] ELSE v[p]]

\* the form data the command is explored on
LabelPath == << "L", "/", "s", "c", "a", "n", ".", "p", "d", "f" >>

RxDataChoices ==
    [ fillDate : {<<>>, << "2", "0", "2", "5", "-", "0", "8", "-", "0", "1" >>},
      pharmacy : {<<>>, << "[", "[", "C", "V", "S", "]", "]" >>},
      medicationName : {<<>>, << "A", "b" >>},
      dosage : {<<>>, << "5", "m", "g" >>},
      prescriptionNumber : {<< "1" >>},
      drugLabel : {<<>>, <<" ">>, LabelPath, << "L", "/", "g", "o", "n", "e", ".", "p", "d", "f" >>} ]

\* the vaults it runs on: the label file, with or without a file of the name
\* the label would get, with or without a note at the path of the new note
TakenLabelPath == << "L", "/", "2", "0", "2", "5", "0", "8", "0", "1", " ", "-", " ",
                     "C", "V", "S", " ", "-", "-", " ", "A", "b", " ", "5", "m", "g",
                     ".", "p", "d", "f" >>

TakenNotePath == << "P", "r", "e", "s", "c", "r", "i", "p", "t", "i", "o", "n", "s",
                    "/", "2", "0", "2", "5", "/", "2", "0", "2", "5", "-", "0", "8",
                    "/", "2", "0", "2", "5", "0", "8", "0", "1", " ", "-", " ", "R",
                    "x", "1", " ", "-", "-", " ", "A", "b", " ", "5", "m", "g", ".",
                    "m", "d" >>

LabelVaults ==
    { [p \in {LabelPath} \cup taken |-> IF p = LabelPath THEN "label" ELSE "other"] :
        taken \in SUBSET {TakenLabelPath, TakenNotePath} }

LabelInit ==
    /\ SearchIdle
    /\ NoteIdle
    /\ RxIdle
    /\ DxIdle
    /\ PairIdle
    /\ PickerIdle
    /\ ConvIdle
    /\ RxModalIdle
    /\ ListsIdle
    /\ \E v \in LabelVaults : labelRun = [LabelForm EXCEPT !.before = v, !.files = v]

\* createPrescriptionNote(data) up to its first await of the vault: the
\* rename of the label if one is selected and renameDrugLabelFile does not
\* return '' first, otherwise the creation of the note
LabelStart(data) ==
    /\ labelRun.pc = "idle"
    /\ labelRun' =
          IF Trim(data.drugLabel) = <<>>
          THEN [labelRun EXCEPT !.pc = "create", !.data = data]
          ELSE IF RenameRefused(labelRun.files, data)
          THEN [labelRun EXCEPT !.pc = "create", !.data = data, !.renameCalled = TRUE]
          ELSE [labelRun EXCEPT !.pc = "rename", !.data = data, !.renameCalled = TRUE,
                                !.newFilePath = NewLabelPath(data)]
    /\ UNCHANGED <<coreVars, picker, conv, rxModal, lists>>

\* a rejection of vault.rename that is not caught
RenameRejectedUncaught(run) == [run EXCEPT !.pc = "done", !.raised = TRUE]

\* a rejection of vault.rename ends in the catch block: return ''
RenameRejected(run) == [run EXCEPT !.pc = "create"]

\* `await this.app.vault.rename(originalFile, newFilePath)` settles
LabelRenamed(rejected) ==
    /\ labelRun.pc = "rename"
    /\ labelRun' =
          IF rejected THEN RenameRejected(labelRun)
          ELSE [labelRun EXCEPT
                   !.pc = "create",
                   !.files = MoveFile(@, labelRun.data.drugLabel, labelRun.newFilePath),
                   !.renamed = TRUE,
                   !.drugLabelFileName = FileName(labelRun.newFilePath)]
    /\ UNCHANGED <<coreVars, picker, conv, rxModal, lists>>

\* `await this.app.vault.create(filePath, frontmatter)` settles: the vault
\* rejects a path that is taken, and may reject any other
LabelNoteCreated(rejected) ==
    /\ labelRun.pc = "create"
    /\ NotePath(labelRun.data) \in DOMAIN labelRun.files => rejected
    /\ labelRun' =
          IF rejected THEN [labelRun EXCEPT !.pc = "done", !.createCalled = TRUE]
          ELSE [labelRun EXCEPT
                   !.pc = "done",
                   !.createCalled = TRUE,
                   !.files = [p \in DOMAIN @ \cup {NotePath(labelRun.data)} |->
                                 IF p = NotePath(labelRun.data) THEN "note" ELSE @[p]],
                   !.created = NotePath(labelRun.data),
                   !.drugLabelLine = DrugLabelLine(labelRun.drugLabelFileName)]
    /\ UNCHANGED <<coreVars, picker, conv, rxModal, lists>>

LabelNext ==
    \/ labelRun.pc = "idle" /\ \E data \in RxDataChoices : LabelStart(data)
    \/ \E rejected \in BOOLEAN : LabelRenamed(rejected)
    \/ \E rejected \in BOOLEAN : LabelNoteCreated(rejected)

LabelSpec == LabelInit /\ [][LabelNext]_vars

(***************************************************************************)
(* Claims about the drug-label file of a prescription                      *)
(***************************************************************************)
\* C26: in createPrescriptionNote the selected drug-label file is renamed
\* only if the prescription note is created: if creating the note fails (for
\* example because a note already exists at the target path), the drug-label
\* file still has its original name afterwards.
C26_RenamedOnlyIfCreated ==
    (labelRun.pc = "done" /\ labelRun.created = <<>>) =>
        /\ ~labelRun.renamed
        /\ LabelPath \in DOMAIN labelRun.files

\* C30: renameDrugLabelFile never replaces an existing file and never
\* raises: when the label file is missing, a required field (fill date,
\* pharmacy, medication, dosage) is empty, the target name is already taken,
\* or the vault rename fails, the original label file keeps its name, the
\* function returns the empty string, and createPrescriptionNote still goes
\* on to create the note with an empty drugLabel value.
C30_RenameNeverReplacesNorRaises ==
    [][LET run == labelRun'
           data == run.data
       IN  /\ \A p \in DOMAIN labelRun.files \cap DOMAIN run.files :
                 run.files[p] = labelRun.files[p]
           /\ ~run.raised
           /\ run.renamed =>
                 /\ data.drugLabel \in DOMAIN run.before
                 /\ data.fillDate # <<>> /\ data.pharmacy # <<>>
                 /\ data.medicationName # <<>> /\ data.dosage # <<>>
                 /\ FileName(run.newFilePath) = run.drugLabelFileName
                 /\ run.newFilePath \notin DOMAIN run.before
           /\ (run.renameCalled /\ ~run.renamed /\ run.pc \in {"create", "done"}) =>
                 /\ run.drugLabelFileName = <<>>
                 /\ data.drugLabel \in DOMAIN run.before =>
                       /\ data.drugLabel \in DOMAIN run.files
                       /\ run.files[data.drugLabel] = run.before[data.drugLabel]
                 /\ run.pc = "done" => run.createCalled
                 /\ run.created # <<>> => run.drugLabelLine = <<"\"", "\"">>]_vars

\* the vault rejected the rename of 'L/scan.pdf': the file has its name, and
\* the note was created with drugLabel: ""
C30_Witness ==
    /\ labelRun.pc = "done"
    /\ labelRun.newFilePath = TakenLabelPath
    /\ ~labelRun.renamed
    /\ LabelPath \in DOMAIN labelRun.files
    /\ labelRun.created = TakenNotePath
    /\ labelRun.drugLabelLine = <<"\"", "\"">>

\* the name was taken: no rename was requested, and the note was created
C30_TargetTaken ==
    /\ labelRun.pc = "done"
    /\ labelRun.data.drugLabel = LabelPath
    /\ NewLabelPath(labelRun.data) = TakenLabelPath
    /\ TakenLabelPath \in DOMAIN labelRun.before
    /\ labelRun.newFilePath = <<>>
    /\ labelRun.created # <<>>

(***************************************************************************)
(* PrescriptionModal: the medication field, the prescription number and    *)
(* the 'Create Note' button                                                *)
(***************************************************************************)
MaxClicks == 2

\* the value of the 'Other (enter manually)' option
CustomOption == << "_", "_", "c", "u", "s", "t", "o", "m", "_", "_" >>

\* the options of the medication dropdown: none, a medication note, other
MedicationOptions == { <<>>, << "[", "[", "A", "b", "]", "]" >>, CustomOption }

\* what the user may leave in a text field
TypedTexts == { <<>>, <<" ">>, << "A", "b" >> }

NumberTexts == { <<>>, <<" ">>, << "1" >> }

RxModalInit ==
    /\ SearchIdle
    /\ NoteIdle
    /\ RxIdle
    /\ DxIdle
    /\ PairIdle
    /\ UiIdle

\* dropdown.onChange(value) of the medication field; the custom option
\* replaces the dropdown by a text input with an empty value
SelectMedication(value) ==
    /\ rxModal.open
    /\ rxModal.control = "dropdown"
    /\ value # rxModal.selected
    /\ rxModal' =
          IF value = CustomOption
          THEN [rxModal EXCEPT !.medicationName = CustomOption, !.selected = value,
                               !.control = "text",
                               !.textValue = IF rxModal.medicationName = CustomOption
                                             THEN <<>> ELSE rxModal.medicationName]
          ELSE [rxModal EXCEPT !.medicationName = value, !.selected = value]
    /\ UNCHANGED <<coreVars, picker, conv, lists, labelRun>>

\* the 'input' listener of the text input showCustomMedicationInput creates
TypeMedication(text) ==
    /\ rxModal.open
    /\ rxModal.control = "text"
    /\ text # rxModal.textValue
    /\ rxModal' = [rxModal EXCEPT !.medicationName = text, !.textValue = text]
    /\ UNCHANGED <<coreVars, picker, conv, lists, labelRun>>

\* onChange of the prescription number field
TypeNumber(text) ==
    /\ rxModal.open
    /\ text # rxModal.prescriptionNumber
    /\ rxModal' = [rxModal EXCEPT !.prescriptionNumber = text]
    /\ UNCHANGED <<coreVars, picker, conv, lists, labelRun>>

\* okButton.onclick up to `await this.plugin.createPrescriptionNote(this.data)`
ClickCreate ==
    /\ rxModal.open
    /\ rxModal.clicks < MaxClicks
    /\ rxModal' =
          IF Trim(rxModal.medicationName) = <<>>
          THEN [rxModal EXCEPT !.clicks = @ + 1, !.notice = "Please enter a medication name"]
          ELSE IF Trim(rxModal.prescriptionNumber) = <<>>
          THEN [rxModal EXCEPT !.clicks = @ + 1,
                               !.notice = "Please enter a prescription number"]
          ELSE [rxModal EXCEPT
                   !.clicks = @ + 1,
                   !.creating = @ + 1,
                   !.notice = "none",
                   !.invokedWith = @ \cup {[medicationName |-> rxModal.medicationName,
                                            prescriptionNumber |-> rxModal.prescriptionNumber]}]
    /\ UNCHANGED <<coreVars, picker, conv, lists, labelRun>>

\* createPrescriptionNote settles and the handler closes the form
CreateSettled ==
    /\ rxModal.creating > 0
    /\ rxModal' = [rxModal EXCEPT !.creating = @ - 1, !.open = FALSE]
    /\ UNCHANGED <<coreVars, picker, conv, lists, labelRun>>

RxModalNext ==
    \/ \E value \in MedicationOptions : SelectMedication(value)
    \/ \E text \in TypedTexts : TypeMedication(text)
    \/ \E text \in NumberTexts : TypeNumber(text)
    \/ ClickCreate
    \/ CreateSettled

RxModalSpec == RxModalInit /\ [][RxModalNext]_vars

(***************************************************************************)
(* Claims about the prescription form                                      *)
(***************************************************************************)
\* C28: for any sequence of dropdown selections, manual text entry and
\* 'Create Note' clicks in the prescription form, createPrescriptionNote is
\* never invoked with a medication name or prescription number that is
\* blank, nor with the internal placeholder value '__custom__' as the
\* medication name; a rejected click creates no note and leaves the form
\* open.
C28_NeverBlankNorPlaceholder ==
    /\ \A data \in rxModal.invokedWith :
          /\ Trim(data.medicationName) # <<>>
          /\ Trim(data.prescriptionNumber) # <<>>
          /\ data.medicationName # CustomOption
    /\ (rxModal.invokedWith = {}) => rxModal.open

\* the same without the clause on the placeholder
C28_NeverBlank ==
    /\ \A data \in rxModal.invokedWith :
          /\ Trim(data.medicationName) # <<>>
          /\ Trim(data.prescriptionNumber) # <<>>
    /\ (rxModal.invokedWith = {}) => rxModal.open

(***************************************************************************)
(* The settings tab: adding and removing pharmacies and patient notes      *)
(***************************************************************************)
MaxEdits == 4

\* what the user may leave in the 'Add New Pharmacy' field
PharmacyTexts == { <<>>, <<" ">>, << " ", "K", "r", "o", "g", "e", "r", " " >>, << "W", "a", "l", "g", "r", "e", "e", "n", "s" >> }

\* the notes of the People folder
PeopleNotes == { << "A", "n", "n" >>, << "B", "o", "b" >> }

\* Array.prototype.includes
Includes(list, x) == \E i \in DOMAIN list : list[i] = x

\* Array.prototype.splice(index, 1), index counted from 1 here: the list
\* without that element, unchanged for an index past its end
Splice(list, index) ==
    IF index > Len(list) THEN list
    ELSE SubSeq(list, 1, index - 1) \o SubSeq(list, index + 1, Len(list))

\* what splice(index, 1) returns
Spliced(list, index) == IF index > Len(list) THEN <<>> ELSE <<list[index]>>

\* the dropdown options display() adds: the people not yet selected
Offered(selected) == {p \in PeopleNotes : ~Includes(selected, p)}

ListsInit ==
    /\ SearchIdle
    /\ NoteIdle
    /\ RxIdle
    /\ DxIdle
    /\ PairIdle
    /\ PickerIdle
    /\ ConvIdle
    /\ RxModalIdle
    /\ LabelIdle
    /\ lists = [ListsForm EXCEPT !.offered = Offered(<<>>)]

\* addButton.onclick up to `await this.plugin.saveSettings()`
AddPharmacy(text) ==
    /\ lists.edits < MaxEdits
    /\ LET pharmacyName == Trim(text)
       IN  lists' =
              IF pharmacyName # <<>> /\ ~Includes(lists.pharmacyList, pharmacyName)
              THEN [lists EXCEPT !.pharmacyList = Append(@, pharmacyName),
                                 !.saving.pharmacy = @ + 1,
                                 !.edits = @ + 1]
              ELSE [lists EXCEPT !.edits = @ + 1]
    /\ UNCHANGED <<coreVars, picker, conv, rxModal, labelRun>>

\* dropdown.onChange(value) of 'Add People Note as Patient', up to its await
AddPatient(value) ==
    /\ lists.edits < MaxEdits
    /\ value \in lists.offered
    /\ lists' =
          IF value # <<>> /\ ~Includes(lists.selectedPatientNotes, value)
          THEN [lists EXCEPT !.selectedPatientNotes = Append(@, value),
                             !.saving.patientAdd = @ + 1,
                             !.edits = @ + 1]
          ELSE [lists EXCEPT !.edits = @ + 1]
    /\ UNCHANGED <<coreVars, picker, conv, rxModal, labelRun>>

\* removeButton.onclick of the row `index` of the pharmacies shown, up to
\* its await: the index is the one the row was drawn with
RemovePharmacy(index) ==
    /\ lists.edits < MaxEdits
    /\ index \in DOMAIN lists.pharmacyRows
    /\ lists' = [lists EXCEPT
                    !.pharmacyList = Splice(@, index),
                    !.saving.pharmacy = @ + 1,
                    !.edits = @ + 1,
                    !.removals = @ \cup {[clicked |-> lists.pharmacyRows[index],
                                          deleted |-> Spliced(lists.pharmacyList, index)]}]
    /\ UNCHANGED <<coreVars, picker, conv, rxModal, labelRun>>

\* removeButton.onclick of the row `index` of the patient notes shown
RemovePatient(index) ==
    /\ lists.edits < MaxEdits
    /\ index \in DOMAIN lists.patientRows
    /\ lists' = [lists EXCEPT
                    !.selectedPatientNotes = Splice(@, index),
                    !.saving.patientRemove = @ + 1,
                    !.edits = @ + 1,
                    !.removals = @ \cup {[clicked |-> lists.patientRows[index],
                                          deleted |-> Spliced(lists.selectedPatientNotes, index)]}]
    /\ UNCHANGED <<coreVars, picker, conv, rxModal, labelRun>>

\* saveSettings settles in a pharmacy handler: updatePharmacyList
PharmacySaved ==
    /\ lists.saving.pharmacy > 0
    /\ lists' = [lists EXCEPT !.saving.pharmacy = @ - 1,
                              !.pharmacyRows = lists.pharmacyList]
    /\ UNCHANGED <<coreVars, picker, conv, rxModal, labelRun>>

\* saveSettings settles in the handler of the patient dropdown:
\* updateSelectedPatientNotesList, then display() draws the whole tab again
PatientAdded ==
    /\ lists.saving.patientAdd > 0
    /\ lists' = [lists EXCEPT !.saving.patientAdd = @ - 1,
                              !.patientRows = lists.selectedPatientNotes,
                              !.pharmacyRows = lists.pharmacyList,
                              !.offered = Offered(lists.selectedPatientNotes)]
    /\ UNCHANGED <<coreVars, picker, conv, rxModal, labelRun>>

\* saveSettings settles in a Remove handler of a patient note:
\* updateSelectedPatientNotesList
PatientRemoved ==
    /\ lists.saving.patientRemove > 0
    /\ lists' = [lists EXCEPT !.saving.patientRemove = @ - 1,
                              !.patientRows = lists.selectedPatientNotes]
    /\ UNCHANGED <<coreVars, picker, conv, rxModal, labelRun>>

ListsNext ==
    \/ \E text \in PharmacyTexts : AddPharmacy(text)
    \/ \E value \in PeopleNotes : AddPatient(value)
    \/ \E index \in 1..Len(lists.pharmacyRows) : RemovePharmacy(index)
    \/ \E index \in 1..Len(lists.patientRows) : RemovePatient(index)
    \/ PharmacySaved
    \/ PatientAdded
    \/ PatientRemoved

ListsSpec == ListsInit /\ [][ListsNext]_vars

(***************************************************************************)
(* Claims about the lists of the settings tab                              *)
(***************************************************************************)
NoDuplicate(list) == \A i, j \in DOMAIN list : list[i] = list[j] => i = j

NoBlank(list) == \A i \in DOMAIN list : Trim(list[i]) # <<>>

\* C29: starting from the default settings, after any sequence of add and
\* remove actions in the settings tab, pharmacyList and selectedPatientNotes
\* each contain no duplicate and no blank entry, and each remove action
\* deletes exactly the entry whose Remove button was clicked.
C29_ListsStayClean ==
    /\ NoDuplicate(lists.pharmacyList) /\ NoBlank(lists.pharmacyList)
    /\ NoDuplicate(lists.selectedPatientNotes) /\ NoBlank(lists.selectedPatientNotes)
    /\ \A r \in lists.removals : r.deleted = <<r.clicked>>

\* the same without the clause on what a remove deletes
C29_NoDuplicateNoBlank ==
    /\ NoDuplicate(lists.pharmacyList) /\ NoBlank(lists.pharmacyList)
    /\ NoDuplicate(lists.selectedPatientNotes) /\ NoBlank(lists.selectedPatientNotes)

\* every remove clicked while no handler was waiting for saveSettings
\* deleted the entry of its row
C29_RemoveWhenSettled ==
    [][(/\ lists.saving = [pharmacy |-> 0, patientAdd |-> 0, patientRemove |-> 0]
        /\ lists'.removals # lists.removals) =>
           \A r \in lists'.removals \ lists.removals : r.deleted = <<r.clicked>>]_vars

=============================================================================
